---- MODULE Spec2Model ----
(***************************************************************************)
(* The AMF compiler of OpenColorIO (fileformats/amf/AMFParser.cpp): the    *)
(* expat event router, the AMF intermediate model and the builder of the  *)
(* AMF config.  One compilation is one run of AMFParser::Impl::parse.     *)
(*                                                                         *)
(* A std::string the compiler builds, searches or cuts (a name, a          *)
(* description, a path, a character-data payload, the library version) is *)
(* a sequence of tokens, each token a run of characters the code never    *)
(* cuts: find is the search for a contiguous run of tokens.  Tag names    *)
(* and attribute names and values, which the code only compares whole,    *)
(* are atomic strings.                                                     *)
(***************************************************************************)
EXTENDS Integers, Sequences, FiniteSets, TLC

VARIABLES
    pc,           \* position of the compilation inside Impl::parse
    runs,         \* number of CreateFromAMF calls made with this AMFInfo object
    libVersion,   \* GetVersion() of the library
    refGiven,     \* the reference config the caller supplies (a key of RefConfigs)
    fs,           \* the paths an ifstream can open and read
    fileLines,    \* lines of the AMF document that are not read yet
    pending,      \* events of the current line expat still has to deliver
    impl,         \* the members of AMFParser::Impl, under their names
    m_amfConfig,  \* the config being built
    amfInfo,      \* *m_amfInfoObject, owned by the caller
    amf,          \* the AMF file of the call: its path, layout and document
    exc,          \* the exception that ended the compilation, or NoException
    earlier       \* what the caller holds from the call before this one

vars == <<pc, runs, libVersion, refGiven, fs, fileLines, pending, impl,
          m_amfConfig, amfInfo, amf, exc, earlier>>

-----------------------------------------------------------------------------
(* Strings                                                                 *)

\* a null pointer where a string or an object is expected
NULL == <<"<NULL>">>

ACES              == "ACES2065-1"
ACES_LOOK_NAME    == "ACES Look Transform"
CONTEXT_NAME      == "SHOT_LOOKS"

AMF_TAG_CLIPID    == "aces:clipId"
AMF_TAG_CLIPNAME  == "aces:clipName"
AMF_TAG_UUID      == "aces:uuid"
AMF_TAG_DESC      == "aces:description"
AMF_TAG_INPUT_TRANSFORM  == "aces:inputTransform"
AMF_TAG_OUTPUT_TRANSFORM == "aces:outputTransform"
AMF_TAG_LOOK_TRANSFORM   == "aces:lookTransform"
AMF_TAG_WORKING_LOCATION == "aces:workingLocation"
AMF_TAG_TRANSFORMID == "aces:transformId"
AMF_TAG_FILE      == "aces:file"
AMF_TAG_CDLCCR    == "cdl:ColorCorrectionRef"
AMF_TAG_IODT      == "aces:inverseOutputDeviceTransform"
AMF_TAG_IRRT      == "aces:inverseReferenceRenderingTransform"
AMF_TAG_ODT       == "aces:outputDeviceTransform"
AMF_TAG_RRT       == "aces:referenceRenderingTransform"
AMF_TAG_CDLWS     == "aces:cdlWorkingSpace"
AMF_TAG_TOCDLWS   == "aces:toCdlWorkingSpace"
AMF_TAG_FROMCDLWS == "aces:fromCdlWorkingSpace"
AMF_TAG_SOPNODE   == "cdl:SOPNode"
AMF_TAG_ASCSOP    == "cdl:ASC_SOP"
AMF_TAG_SLOPE     == "cdl:Slope"
AMF_TAG_OFFSET    == "cdl:Offset"
AMF_TAG_POWER     == "cdl:Power"
AMF_TAG_SATNODE   == "cdl:SatNode"
AMF_TAG_ASCSAT    == "cdl:ASC_SAT"
AMF_TAG_SAT       == "cdl:Saturation"
AMF_TAG_PIPELINE  == "aces:pipeline"

AMF_NO_WORKING_LOCATION   == ""
AMF_PRE_WORKING_LOCATION  == "Pre-working-location"
AMF_POST_WORKING_LOCATION == "Post-working-location"

\* Case folding of the strings of the model that differ from another one of
\* them by case only; every other string folds to itself.
CaseFold(s) ==
    CASE s = "TRUE"    -> "true"
      [] s = "True"    -> "true"
      [] s = "APPLIED" -> "applied"
      [] s = "Applied" -> "applied"
      [] s = "ACES:TRANSFORMID" -> AMF_TAG_TRANSFORMID
      [] s = "Shot"    -> "shot"
      [] OTHER -> s

\* Platform::Strcasecmp(a, b) == 0
StrcasecmpEq(a, b) == CaseFold(a) = CaseFold(b)

\* std::string::find(needle) != npos, on sequences of tokens
RECURSIVE FindFrom(_, _, _)
FindFrom(hay, needle, i) ==
    IF i + Len(needle) - 1 > Len(hay) THEN 0
    ELSE IF SubSeq(hay, i, i + Len(needle) - 1) = needle THEN i
    ELSE FindFrom(hay, needle, i + 1)

Contains(hay, needle) == FindFrom(hay, needle, 1) # 0

\* index of the last element of s equal to c, 0 if none (find_last_of + 1)
RECURSIVE LastIndexOf(_, _, _)
LastIndexOf(s, c, i) ==
    IF i = 0 THEN 0 ELSE IF s[i] = c THEN i ELSE LastIndexOf(s, c, i - 1)

-----------------------------------------------------------------------------
(* The AMF intermediate model                                              *)

\* AMFTransform, AMFOutputTransform and AMFInputTransform after construction
NewAMFTransform == [m_subElements |-> <<>>, m_attributes |-> <<>>]

NewAMFOutputTransform ==
    [m_subElements |-> <<>>, m_attributes |-> <<>>,
     m_tldTemp |-> <<>>, m_tldElements |-> <<>>]

NewAMFInputTransform ==
    [m_subElements |-> <<>>, m_attributes |-> <<>>,
     m_tldTemp |-> <<>>, m_tldElements |-> <<>>, m_isInverse |-> FALSE]

addSubElement(t, name, value) ==
    [t EXCEPT !.m_subElements = Append(@, <<name, value>>)]

addAttribute(t, name, value) ==
    [t EXCEPT !.m_attributes = Append(@, <<name, value>>)]

RECURSIVE addAttributes(_, _)
addAttributes(t, atts) ==
    IF atts = <<>> THEN t
    ELSE addAttributes(addAttribute(t, Head(atts)[1], Head(atts)[2]), Tail(atts))

\* the stack m_tldTemp, its top at the end of the sequence
addTld(t, name) == [t EXCEPT !.m_tldTemp = Append(@, name)]

\* std::stack::pop; on an empty stack the behaviour is undefined: the
\* EndElement step, told so by TldUnderflow, ends the process or goes on
\* with the stack it had
removeTld(t) ==
    [t EXCEPT !.m_tldTemp = IF @ = <<>> THEN @ ELSE SubSeq(@, 1, Len(@) - 1)]

addTldElement(t, name, value) ==
    [t EXCEPT !.m_tldElements = Append(@, <<name, value>>)]

\* AMFTransform::empty
TransformEmpty(t) == t.m_attributes = <<>> /\ t.m_subElements = <<>>

\* AMFOutputTransform::empty and AMFInputTransform::empty
OutputTransformEmpty(t) ==
    t.m_attributes = <<>> /\ t.m_tldElements = <<>> /\ t.m_subElements = <<>>

\* size_t holds values modulo 2^64; the model keeps them modulo 2^SizeBits
SizeBits == 20
ToSizeT(n) == n % (2 ^ SizeBits)

\* AMFParser::Impl after construction (Impl::Impl and Impl::reset agree on
\* every member but m_look, which reset does not empty)
NewImpl ==
    [m_xmlFilePath |-> <<>>,
     m_lineNumber  |-> 0,
     m_refConfig   |-> "",
     m_clipId |-> NewAMFTransform,
     m_input  |-> NewAMFInputTransform,
     m_output |-> NewAMFOutputTransform,
     m_look   |-> <<>>,
     m_isInsideInputTransform  |-> FALSE,
     m_isInsideOutputTransform |-> FALSE,
     m_isInsideLookTransform   |-> FALSE,
     m_isInsideClipId          |-> FALSE,
     m_isInsidePipeline        |-> FALSE,
     m_currentElement |-> "",
     m_clipName       |-> <<>>,
     m_numLooksBeforeWorkingLocation |-> ToSizeT(-1)]

\* Impl::reset: every member as after construction, but m_look keeps its
\* elements, each of them reset
reset(p) == [NewImpl EXCEPT !.m_look = [i \in DOMAIN p.m_look |-> NewAMFTransform]]

-----------------------------------------------------------------------------
(* The XML event router.  A handler takes the members p and gives          *)
(* [handled, p]: what it returns and the members after it.                 *)

Handled(p)    == [handled |-> TRUE,  p |-> p]
NotHandled(p) == [handled |-> FALSE, p |-> p]

HandleInputTransformStartElement(p, name, atts) ==
    IF StrcasecmpEq(name, AMF_TAG_INPUT_TRANSFORM)
    THEN Handled([p EXCEPT !.m_isInsideInputTransform = TRUE,
                           !.m_input = addTld(addAttributes(@, atts), name)])
    ELSE IF p.m_isInsideInputTransform
    THEN Handled([p EXCEPT
            !.m_currentElement = name,
            !.m_input = IF StrcasecmpEq(name, AMF_TAG_IODT) \/ StrcasecmpEq(name, AMF_TAG_IRRT)
                        THEN addTld([@ EXCEPT !.m_isInverse = TRUE], name)
                        ELSE @])
    ELSE NotHandled(p)

HandleOutputTransformStartElement(p, name, atts) ==
    IF StrcasecmpEq(name, AMF_TAG_OUTPUT_TRANSFORM)
    THEN Handled([p EXCEPT !.m_isInsideOutputTransform = TRUE,
                           !.m_output = addTld(addAttributes(@, atts), name)])
    ELSE IF p.m_isInsideOutputTransform
    THEN Handled([p EXCEPT
            !.m_currentElement = name,
            !.m_output = IF StrcasecmpEq(name, AMF_TAG_ODT) \/ StrcasecmpEq(name, AMF_TAG_RRT)
                         THEN addTld(@, name)
                         ELSE @])
    ELSE NotHandled(p)

\* every attribute value of cdl:ColorCorrectionRef becomes a sub-element
RECURSIVE addCcrValues(_, _)
addCcrValues(t, atts) ==
    IF atts = <<>> THEN t
    ELSE addCcrValues(addSubElement(t, AMF_TAG_CDLCCR, Head(atts)[2]), Tail(atts))

HandleLookTransformStartElement(p, name, atts) ==
    IF StrcasecmpEq(name, AMF_TAG_LOOK_TRANSFORM)
    THEN Handled([p EXCEPT !.m_isInsideLookTransform = TRUE,
                           !.m_look = Append(@, addAttributes(NewAMFTransform, atts))])
    ELSE IF p.m_isInsideLookTransform
    THEN Handled([p EXCEPT
            !.m_currentElement = name,
            !.m_look = IF StrcasecmpEq(name, AMF_TAG_CDLCCR)
                       THEN [p.m_look EXCEPT
                                ![Len(p.m_look)] = addCcrValues(p.m_look[Len(p.m_look)], atts)]
                       ELSE @])
    ELSE NotHandled(p)

HandleClipIdStartElement(p, name, atts) ==
    IF StrcasecmpEq(name, AMF_TAG_CLIPID)
    THEN Handled([p EXCEPT !.m_isInsideClipId = TRUE,
                           !.m_clipId = addAttributes(@, atts)])
    ELSE IF p.m_isInsideClipId
    THEN Handled([p EXCEPT !.m_currentElement = name])
    ELSE NotHandled(p)

HandlePipelineStartElement(p, name) ==
    IF StrcasecmpEq(name, AMF_TAG_PIPELINE)
    THEN Handled([p EXCEPT !.m_isInsidePipeline = TRUE])
    ELSE IF p.m_isInsidePipeline THEN Handled(p)
    ELSE NotHandled(p)

\* the members after StartElementHandler(name, atts)
StartElementHandler(p, name, atts) ==
    LET c == HandleClipIdStartElement(p, name, atts) IN
    IF c.handled THEN c.p
    ELSE
    LET pl == HandlePipelineStartElement(p, name) IN
    IF ~pl.handled THEN pl.p
    ELSE IF StrcasecmpEq(name, AMF_TAG_WORKING_LOCATION)
    THEN [pl.p EXCEPT !.m_numLooksBeforeWorkingLocation = ToSizeT(Len(pl.p.m_look))]
    ELSE
    LET i == HandleInputTransformStartElement(pl.p, name, atts) IN
    IF i.handled THEN i.p
    ELSE
    LET o == HandleOutputTransformStartElement(pl.p, name, atts) IN
    IF o.handled THEN o.p
    ELSE HandleLookTransformStartElement(pl.p, name, atts).p

HandleInputTransformEndElement(p, name) ==
    IF StrcasecmpEq(name, AMF_TAG_INPUT_TRANSFORM)
    THEN Handled([p EXCEPT !.m_isInsideInputTransform = FALSE,
                           !.m_input = removeTld(@)])
    ELSE IF p.m_isInsideInputTransform
    THEN Handled([p EXCEPT
            !.m_currentElement = "",
            !.m_input = IF StrcasecmpEq(name, AMF_TAG_IODT) \/ StrcasecmpEq(name, AMF_TAG_IRRT)
                        THEN removeTld(@) ELSE @])
    ELSE NotHandled(p)

HandleOutputTransformEndElement(p, name) ==
    IF StrcasecmpEq(name, AMF_TAG_OUTPUT_TRANSFORM)
    THEN Handled([p EXCEPT !.m_isInsideOutputTransform = FALSE,
                           !.m_output = removeTld(@)])
    ELSE IF p.m_isInsideOutputTransform
    THEN Handled([p EXCEPT
            !.m_currentElement = "",
            !.m_output = IF StrcasecmpEq(name, AMF_TAG_ODT) \/ StrcasecmpEq(name, AMF_TAG_RRT)
                         THEN removeTld(@) ELSE @])
    ELSE NotHandled(p)

HandleLookTransformEndElement(p, name) ==
    IF StrcasecmpEq(name, AMF_TAG_LOOK_TRANSFORM)
    THEN Handled([p EXCEPT !.m_isInsideLookTransform = FALSE])
    ELSE IF p.m_isInsideLookTransform
    THEN Handled([p EXCEPT !.m_currentElement = ""])
    ELSE NotHandled(p)

HandleClipIdEndElement(p, name) ==
    IF StrcasecmpEq(name, AMF_TAG_CLIPID)
    THEN Handled([p EXCEPT !.m_isInsideClipId = FALSE])
    ELSE IF p.m_isInsideClipId
    THEN Handled([p EXCEPT !.m_currentElement = ""])
    ELSE NotHandled(p)

HandlePipelineEndElement(p, name) ==
    IF StrcasecmpEq(name, AMF_TAG_PIPELINE)
    THEN Handled([p EXCEPT !.m_isInsidePipeline = FALSE])
    ELSE IF p.m_isInsidePipeline THEN Handled(p)
    ELSE NotHandled(p)

\* the members after EndElementHandler(name)
EndElementHandler(p, name) ==
    LET c == HandleClipIdEndElement(p, name) IN
    IF c.handled THEN c.p
    ELSE
    LET pl == HandlePipelineEndElement(p, name) IN
    IF ~pl.handled THEN pl.p
    ELSE
    LET i == HandleInputTransformEndElement(pl.p, name) IN
    IF i.handled THEN i.p
    ELSE
    LET o == HandleOutputTransformEndElement(pl.p, name) IN
    IF o.handled THEN o.p
    ELSE HandleLookTransformEndElement(pl.p, name).p

\* EndElementHandler(name) calls removeTld on a record whose TLD stack is
\* empty
TldUnderflow(p, name) ==
    /\ ~HandleClipIdEndElement(p, name).handled
    /\ HandlePipelineEndElement(p, name).handled
    /\ IF StrcasecmpEq(name, AMF_TAG_INPUT_TRANSFORM)
          \/ (p.m_isInsideInputTransform
                /\ (StrcasecmpEq(name, AMF_TAG_IODT) \/ StrcasecmpEq(name, AMF_TAG_IRRT)))
       THEN p.m_input.m_tldTemp = <<>>
       ELSE IF p.m_isInsideInputTransform THEN FALSE
       ELSE IF StrcasecmpEq(name, AMF_TAG_OUTPUT_TRANSFORM)
               \/ (p.m_isInsideOutputTransform
                     /\ (StrcasecmpEq(name, AMF_TAG_ODT) \/ StrcasecmpEq(name, AMF_TAG_RRT)))
       THEN p.m_output.m_tldTemp = <<>>
       ELSE FALSE

\* the top of a TLD stack, "" when it is empty
TldTop(t) == IF t.m_tldTemp = <<>> THEN "" ELSE t.m_tldTemp[Len(t.m_tldTemp)]

\* the members after CharacterDataHandler(s, len) for a payload it accepts:
\* s not null.  The payloads dropped for what they hold are the empty one
\* and the lone newline.
CharacterDataHandler(p, s) ==
    IF s = <<>> \/ s = <<"\n">> THEN p
    ELSE IF p.m_isInsideInputTransform /\ p.m_currentElement # ""
    THEN IF StrcasecmpEq(TldTop(p.m_input), AMF_TAG_INPUT_TRANSFORM)
         THEN [p EXCEPT !.m_input = addTldElement(@, p.m_currentElement, s)]
         ELSE IF StrcasecmpEq(TldTop(p.m_input), AMF_TAG_IODT)
         THEN [p EXCEPT !.m_input = addSubElement(@, p.m_currentElement, s)]
         ELSE p
    ELSE IF p.m_isInsideOutputTransform /\ p.m_currentElement # ""
    THEN IF StrcasecmpEq(TldTop(p.m_output), AMF_TAG_OUTPUT_TRANSFORM)
         THEN [p EXCEPT !.m_output = addTldElement(@, p.m_currentElement, s)]
         ELSE IF StrcasecmpEq(TldTop(p.m_output), AMF_TAG_ODT)
         THEN [p EXCEPT !.m_output = addSubElement(@, p.m_currentElement, s)]
         ELSE p
    ELSE IF p.m_isInsideLookTransform /\ p.m_currentElement # ""
    THEN [p EXCEPT !.m_look = [p.m_look EXCEPT
            ![Len(p.m_look)] = addSubElement(p.m_look[Len(p.m_look)], p.m_currentElement, s)]]
    ELSE IF p.m_isInsideClipId /\ p.m_currentElement # ""
    THEN [p EXCEPT !.m_clipId = addSubElement(@, p.m_currentElement, s)]
    ELSE p

-----------------------------------------------------------------------------
(* The reference configs                                                   *)

Str(x) == <<x>>

\* ACES transform ids an AMF may carry
ID_IDT     == <<"urn:IDT.ARRI.LogC3">>
ID_ODT     == <<"urn:ODT.Rec709">>
ID_ODT_P3  == <<"urn:ODT.P3D65">>
ID_LMT     == <<"urn:LMT.Blue">>
ID_CSC     == <<"urn:CSC.ACEScct">>
ID_UNKNOWN == <<"urn:unknown">>

CAMERA_MAPPING(name) ==
    CASE name = Str("ARRI LogC3 (EI800)")          -> Str("Linear ARRI Wide Gamut 3")
      [] name = Str("ARRI LogC4")                  -> Str("Linear ARRI Wide Gamut 4")
      [] name = Str("BMDFilm WideGamut Gen5")      -> Str("Linear BMD WideGamut Gen5")
      [] name = Str("CanonLog2 CinemaGamut D55")   -> Str("Linear CinemaGamut D55")
      [] name = Str("CanonLog3 CinemaGamut D55")   -> Str("Linear CinemaGamut D55")
      [] name = Str("V-Log V-Gamut")               -> Str("Linear V-Gamut")
      [] name = Str("Log3G10 REDWideGamutRGB")     -> Str("Linear REDWideGamutRGB")
      [] name = Str("S-Log3 S-Gamut3")             -> Str("Linear S-Gamut3")
      [] name = Str("S-Log3 S-Gamut3.Cine")        -> Str("Linear S-Gamut3.Cine")
      [] name = Str("S-Log3 Venice S-Gamut3")      -> Str("Linear Venice S-Gamut3")
      [] name = Str("S-Log3 Venice S-Gamut3.Cine") -> Str("Linear Venice S-Gamut3.Cine")
      [] OTHER -> NULL

NoTransform == [type |-> "none"]

\* a colour space, view transform or look of a reference config
RefCS(name, description) ==
    [name |-> Str(name), description |-> description, family |-> <<>>,
     toReference |-> NoTransform, fromReference |-> NoTransform]

NullObject == [name |-> NULL, description |-> <<>>]
IsNull(obj) == obj.name = NULL

\* the colour spaces every reference config of the model holds after ACES2065-1
RefCommonColorSpaces ==
    << RefCS("ACEScct", <<"Convert", "ACEScct", "to", "ACES2065-1">> \o ID_CSC),
       RefCS("ACEScg", <<"Convert", "ACEScg", "to", "ACES2065-1">>),
       RefCS("ARRI LogC3 (EI800)", <<"Convert", "ARRI", "LogC3", "to", "ACES2065-1">> \o ID_IDT),
       RefCS("Linear ARRI Wide Gamut 3", <<"Convert", "Linear", "ARRI", "to">>),
       RefCS("CIE-XYZ-D65", <<"The", "CIE", "XYZ", "(D65)", "display", "connection">>),
       RefCS("Rec.1886 Rec.709 - Display", <<"Convert", "CIE", "XYZ", "to", "Rec.709">> \o ID_ODT),
       RefCS("P3-D65 - Display", <<"Convert", "CIE", "XYZ", "to", "P3-D65">> \o ID_ODT_P3),
       RefCS("Raw", <<"The", "utility", "Raw", "colorspace">>) >>

RefViewTransforms ==
    << RefCS("ACES 1.0 - SDR Video", <<"Component", "of", "SDR", "video">> \o ID_ODT),
       RefCS("Un-tone-mapped", <<>>) >>

RefLooks ==
    << RefCS("ACES 1.3 Reference Gamut Compression", <<"LMT">> \o ID_LMT) >>

RefWith(minor, first) ==
    [version        |-> <<2, minor>>,
     colorSpaces    |-> first \o RefCommonColorSpaces,
     viewTransforms |-> RefViewTransforms,
     looks          |-> RefLooks]

\* The reference configs a caller may supply.  They differ in what the
\* description of a colour space says about ACES2065-1, in whether that
\* colour space exists, and in the version of the config.
RefConfigKeys == {"self-described", "studio", "plain", "no-aces", "old"}

RefConfig(key) ==
    CASE key = "self-described" ->
            RefWith(3, <<RefCS(ACES, <<"The", "ACES2065-1", "reference", "colorspace">>)>>)
      [] key = "studio" ->
            RefWith(3, <<RefCS(ACES, <<"The", "Academy", "reference", "colorspace">>)>>)
      [] key = "plain" ->
            [RefWith(3, <<RefCS(ACES, <<"The", "Academy", "reference", "colorspace">>)>>)
                EXCEPT !.colorSpaces =
                    [i \in DOMAIN @ |-> [@[i] EXCEPT !.description =
                        SelectSeq(@, LAMBDA t : t # ACES)]]]
      [] key = "no-aces" -> RefWith(3, <<>>)
      [] key = "old" ->
            RefWith(2, <<RefCS(ACES, <<"The", "ACES2065-1", "reference", "colorspace">>)>>)

\* Config::getColorSpace(name) etc. on a sequence of named objects: the
\* object, or NULL
RECURSIVE GetByName(_, _)
GetByName(objs, name) ==
    IF objs = <<>> THEN NullObject
    ELSE IF Head(objs).name = name THEN Head(objs)
    ELSE GetByName(Tail(objs), name)

HasName(objs, name) == \E i \in DOMAIN objs : objs[i].name = name

\* the linear scan of searchColorSpaces, searchViewTransforms and
\* searchLookTransforms: the first object whose description holds acesId
RECURSIVE SearchByDescription(_, _)
SearchByDescription(objs, acesId) ==
    IF objs = <<>> THEN NullObject
    ELSE IF Contains(Head(objs).description, acesId) THEN Head(objs)
    ELSE SearchByDescription(Tail(objs), acesId)

searchColorSpaces(ref, acesId)    == SearchByDescription(RefConfig(ref).colorSpaces, acesId)
searchViewTransforms(ref, acesId) == SearchByDescription(RefConfig(ref).viewTransforms, acesId)
searchLookTransforms(ref, acesId) == SearchByDescription(RefConfig(ref).looks, acesId)

-----------------------------------------------------------------------------
(* The config being built: the part of the Config interface the compiler   *)
(* uses.  Names are compared as written.                                   *)

\* Config::CreateRaw()->createEditableCopy()
CreateRaw ==
    [version        |-> <<2, 0>>,
     colorSpaces    |-> <<[name |-> Str("Raw"), description |-> <<>>, family |-> <<>>,
                           toReference |-> NoTransform, fromReference |-> NoTransform]>>,
     roles          |-> {<<Str("default"), Str("Raw")>>},
     looks          |-> <<>>,
     viewTransforms |-> <<>>,
     displays       |-> <<[name |-> Str("sRGB"),
                           views |-> <<[name |-> Str("Raw"), colorSpace |-> Str("Raw"),
                                        looks |-> NULL]>>,
                           sharedViews |-> <<>>]>>,
     sharedViews    |-> <<>>,
     activeDisplays |-> <<>>,
     activeViews    |-> <<>>,
     inactiveColorSpaces |-> <<>>,
     environment    |-> {},
     namedTransforms |-> <<>>,
     searchPaths    |-> <<>>,
     fileRulesDefault |-> Str("default")]

\* replace the object of that name, or append
AddNamed(objs, obj) ==
    IF HasName(objs, obj.name)
    THEN [i \in DOMAIN objs |-> IF objs[i].name = obj.name THEN obj ELSE objs[i]]
    ELSE Append(objs, obj)

addColorSpace(cfg, cs)     == [cfg EXCEPT !.colorSpaces = AddNamed(@, cs)]
addViewTransform(cfg, vt)  == [cfg EXCEPT !.viewTransforms = AddNamed(@, vt)]
addLook(cfg, look)         == [cfg EXCEPT !.looks = AddNamed(@, look)]
addNamedTransform(cfg, nt) == [cfg EXCEPT !.namedTransforms = AddNamed(@, nt)]

removeColorSpace(cfg, name) ==
    [cfg EXCEPT !.colorSpaces = SelectSeq(@, LAMBDA c : c.name # name)]

\* Config::setRole: role names are stored in lower case; a null colour space
\* removes the role
LowerCase(str) == [i \in DOMAIN str |-> CaseFold(str[i])]

setRole(cfg, role, csName) ==
    [cfg EXCEPT !.roles =
        {r \in @ : r[1] # LowerCase(role)}
        \cup (IF csName = NULL THEN {} ELSE {<<LowerCase(role), csName>>})]

hasRole(cfg, role) == \E r \in cfg.roles : r[1] = role
getRoleColorSpace(cfg, role) == (CHOOSE r \in cfg.roles : r[1] = role)[2]

addEnvironmentVar(cfg, name, value) ==
    [cfg EXCEPT !.environment = {e \in @ : e[1] # name} \cup {<<name, value>>}]

getEnvironmentVar(cfg, name) ==
    IF \E e \in cfg.environment : e[1] = name
    THEN (CHOOSE e \in cfg.environment : e[1] = name)[2]
    ELSE NULL

\* Config::addDisplayView(display, view, colorSpace, looks)
addDisplayView(cfg, display, view, colorSpace, looks) ==
    LET v == [name |-> view, colorSpace |-> colorSpace, looks |-> looks] IN
    [cfg EXCEPT !.displays =
        IF HasName(@, display)
        THEN [i \in DOMAIN @ |->
                IF @[i].name = display
                THEN [@[i] EXCEPT !.views = AddNamed(@, v)]
                ELSE @[i]]
        ELSE Append(@, [name |-> display, views |-> <<v>>, sharedViews |-> <<>>])]

\* Config::removeDisplayView: a display left without views is removed
removeDisplayView(cfg, display, view) ==
    LET less == [i \in DOMAIN cfg.displays |->
                    IF cfg.displays[i].name = display
                    THEN [cfg.displays[i] EXCEPT
                            !.views = SelectSeq(@, LAMBDA v : v.name # view)]
                    ELSE cfg.displays[i]]
    IN [cfg EXCEPT !.displays =
            SelectSeq(less, LAMBDA d : d.views # <<>> \/ d.sharedViews # <<>>)]

\* Config::addSharedView(view, viewTransform, colorSpace, looks, rule, description)
addSharedView(cfg, view, viewTransform, colorSpace, looks) ==
    [cfg EXCEPT !.sharedViews =
        AddNamed(@, [name |-> view, viewTransform |-> viewTransform,
                     colorSpace |-> colorSpace, looks |-> looks])]

\* Config::addDisplaySharedView(display, sharedView)
addDisplaySharedView(cfg, display, sharedView) ==
    [cfg EXCEPT !.displays =
        IF HasName(@, display)
        THEN [i \in DOMAIN @ |->
                IF @[i].name = display
                THEN [@[i] EXCEPT !.sharedViews = Append(@, sharedView)]
                ELSE @[i]]
        ELSE Append(@, [name |-> display, views |-> <<>>, sharedViews |-> <<sharedView>>])]

\* the names of the views of a display, its own views first
ViewNames(d) == [i \in DOMAIN d.views |-> d.views[i].name] \o d.sharedViews

\* Config::getNumViews(display) and getView(display, i) see the views of the
\* display that are active: all of them when no view is active
DisplayViews(cfg, display) ==
    IF ~HasName(cfg.displays, display) THEN <<>>
    ELSE LET all == ViewNames(GetByName(cfg.displays, display)) IN
         IF cfg.activeViews = <<>> THEN all
         ELSE SelectSeq(cfg.activeViews, LAMBDA v : \E i \in DOMAIN all : all[i] = v)

\* Config::getDisplay(i) sees the displays that are active: all of them
\* when no display is active
ActiveDisplayNames(cfg) ==
    LET all == [i \in DOMAIN cfg.displays |-> cfg.displays[i].name] IN
    IF cfg.activeDisplays = <<>> THEN all
    ELSE SelectSeq(cfg.activeDisplays, LAMBDA d : \E i \in DOMAIN all : all[i] = d)

\* Config::getDisplay(0) and Config::getView(display, 0): "" past the end
getDisplay0(cfg) ==
    IF ActiveDisplayNames(cfg) = <<>> THEN <<>> ELSE ActiveDisplayNames(cfg)[1]

getView0(cfg, display) ==
    IF DisplayViews(cfg, display) = <<>> THEN <<>> ELSE DisplayViews(cfg, display)[1]

\* Config::setActiveDisplays / setActiveViews with one name (the names of
\* the model hold no comma); the empty string clears the list
setActiveDisplays(cfg, display) ==
    [cfg EXCEPT !.activeDisplays = IF display = <<>> THEN <<>> ELSE <<display>>]
setActiveViews(cfg, view) ==
    [cfg EXCEPT !.activeViews = IF view = <<>> THEN <<>> ELSE <<view>>]

-----------------------------------------------------------------------------
(* Exceptions and the state of a build                                     *)

NoException == [what |-> "", hasLine |-> FALSE, line |-> 0]

\* AMFParser::Impl::throwMessage: the message ends "At line (m_lineNumber)"
throwMessage(p, error) == [what |-> error, hasLine |-> TRUE, line |-> p.m_lineNumber]

\* an exception of the config library or of the C++ library: no line number
LibraryException(error) == [what |-> error, hasLine |-> FALSE, line |-> 0]

\* A build step works on b = [cfg, info, exc, fate]: the config, the AMFInfo,
\* the exception thrown so far, and fate: "hang" once the step is in a loop
\* it never leaves, "crash" once undefined behaviour has ended the process,
\* "" otherwise.  After an exception, a hang or a crash nothing more happens.
Stopped(b) == b.exc # NoException \/ b.fate # ""
Throw(b, e) == IF Stopped(b) THEN b ELSE [b EXCEPT !.exc = e]
Hang(b)     == IF Stopped(b) THEN b ELSE [b EXCEPT !.fate = "hang"]
Crash(b)    == IF Stopped(b) THEN b ELSE [b EXCEPT !.fate = "crash"]
SetCfg(b, cfg)         == IF Stopped(b) THEN b ELSE [b EXCEPT !.cfg = cfg]
SetInputName(b, name)  == IF Stopped(b) THEN b ELSE [b EXCEPT !.info.inputColorSpaceName = name]

\* the transforms the compiler creates
FileTransform(src, cccId, direction) ==
    [type |-> "FileTransform", src |-> src, cccId |-> cccId,
     interpolation |-> "INTERP_BEST", direction |-> direction]

GroupTransform(transforms) == [type |-> "GroupTransform", transforms |-> transforms]

DisplayViewTransform(src, display, view, direction, looksBypass) ==
    [type |-> "DisplayViewTransform", src |-> src, display |-> display, view |-> view,
     direction |-> direction, looksBypass |-> looksBypass]

ColorSpaceTransform(src, dst, direction, dataBypass) ==
    [type |-> "ColorSpaceTransform", src |-> src, dst |-> dst,
     direction |-> direction, dataBypass |-> dataBypass]

LookTransform(src, dst, looks, direction) ==
    [type |-> "LookTransform", src |-> src, dst |-> dst, looks |-> looks,
     skipColorSpaceConversion |-> FALSE, direction |-> direction]

\* a colour space the compiler creates, in family AMF/<clipName>
AmfColorSpace(name, clipName, toReference, fromReference) ==
    [name |-> name, description |-> <<>>, family |-> <<"AMF/">> \o clipName,
     toReference |-> toReference, fromReference |-> fromReference]

\* std::string::substr(0, find_last_of("/")): the whole string when it holds no "/"
UpToLastSlash(path) ==
    IF LastIndexOf(path, "/", Len(path)) = 0 THEN path
    ELSE SubSeq(path, 1, LastIndexOf(path, "/", Len(path)) - 1)

\* checkLutPath without the second attempt, under the directory of the AMF
checkLutPath_AsWrittenOnly(p, files, lutPath) ==
    IF lutPath \in files THEN NoException
    ELSE throwMessage(p, "File transform refers to path that does not exist")

\* checkLutPath: the exception it throws, NoException when it returns
checkLutPath(p, files, lutPath) ==
    IF lutPath \in files THEN NoException
    ELSE IF lutPath # <<>> /\ lutPath[1] = "/"
    THEN throwMessage(p, "File transform refers to path that does not exist")
    ELSE IF (UpToLastSlash(p.m_xmlFilePath) \o <<"/">> \o lutPath) \in files
    THEN NoException
    ELSE throwMessage(p, "File transform refers to path that does not exist")

\* getFileDescription: the value of the first aces:description sub-element,
\* the string left as it was ("") when there is none
RECURSIVE FirstValueOf(_, _, _)
FirstValueOf(elems, tag, default) ==
    IF elems = <<>> THEN default
    ELSE IF StrcasecmpEq(Head(elems)[1], tag) THEN Head(elems)[2]
    ELSE FirstValueOf(Tail(elems), tag, default)

getFileDescription(amft) == FirstValueOf(amft.m_subElements, AMF_TAG_DESC, <<>>)

\* getCCCId
getCCCId(amft) == FirstValueOf(amft.m_subElements, AMF_TAG_CDLCCR, <<>>)

\* mustApply: FALSE exactly when an attribute "applied" has the value "true"
mustApply(amft) ==
    ~ \E i \in DOMAIN amft.m_attributes :
        /\ StrcasecmpEq(amft.m_attributes[i][1], "applied")
        /\ StrcasecmpEq(amft.m_attributes[i][2], "true")

\* addInactiveCS
addInactiveCS(cfg, csName) == [cfg EXCEPT !.inactiveColorSpaces = Append(@, csName)]

\* Config::addDisplayView refuses an empty display name
addDisplayViewChecked(b, display, view, colorSpace, looks) ==
    IF display = <<>>
    THEN Throw(b, LibraryException("Can't add a (display, view) pair with empty display name"))
    ELSE SetCfg(b, addDisplayView(b.cfg, display, view, colorSpace, looks))

\* processOutputTransformId
processOutputTransformId(b, p, transformId, tDirection) ==
    LET dcs == searchColorSpaces(p.m_refConfig, transformId)
        vt  == searchViewTransforms(p.m_refConfig, transformId)
    IN
    IF Stopped(b) \/ IsNull(dcs) \/ IsNull(vt) THEN b
    ELSE
    LET c1 == addViewTransform(addColorSpace(b.cfg, dcs), vt)
        c2 == addSharedView(c1, vt.name, vt.name, Str("<USE_DISPLAY_NAME>"), Str(ACES_LOOK_NAME))
        bViewExists == \E i \in DOMAIN DisplayViews(c2, dcs.name) :
                            DisplayViews(c2, dcs.name)[i] = vt.name
        c3 == IF bViewExists THEN c2 ELSE addDisplaySharedView(c2, dcs.name, vt.name)
    IN
    IF tDirection = "inverse"
    THEN LET name == <<"AMF Input Transform -- ">> \o p.m_clipName
             dvt  == DisplayViewTransform(Str(ACES), dcs.name, vt.name, tDirection, TRUE)
         IN SetInputName(
                SetCfg(b, addColorSpace(c3, AmfColorSpace(name, p.m_clipName, dvt, NoTransform))),
                name)
    ELSE SetCfg(b, setActiveViews(setActiveDisplays(c3, dcs.name), vt.name))

-----------------------------------------------------------------------------
(* processInputTransform and processOutputTransform                        *)

\* import the colour space cs of the reference config as the input colour
\* space, and its linear companion when CAMERA_MAPPING has one
ImportInputColorSpace(b, p, cs) ==
    LET b1  == SetInputName(SetCfg(b, addColorSpace(b.cfg, cs)), cs.name)
        lin == GetByName(RefConfig(p.m_refConfig).colorSpaces, CAMERA_MAPPING(cs.name))
    IN IF CAMERA_MAPPING(cs.name) = NULL THEN b1
       ELSE IF IsNull(lin) THEN Throw(b1, LibraryException("null colour space"))
       ELSE SetCfg(b1, addColorSpace(b1.cfg, lin))

\* the loop over m_input.m_tldElements
RECURSIVE InputTldElements(_, _, _, _)
InputTldElements(b, p, files, elems) ==
    IF elems = <<>> \/ Stopped(b) THEN b
    ELSE
    LET tag   == Head(elems)[1]
        value == Head(elems)[2]
        name  == <<"AMF Input Transform -- ">> \o p.m_clipName
        b1 ==
          IF StrcasecmpEq(tag, AMF_TAG_TRANSFORMID)
          THEN IF IsNull(searchColorSpaces(p.m_refConfig, value)) THEN b
               ELSE ImportInputColorSpace(b, p, searchColorSpaces(p.m_refConfig, value))
          ELSE IF StrcasecmpEq(tag, AMF_TAG_FILE)
          THEN IF checkLutPath(p, files, value) # NoException
               THEN Throw(b, checkLutPath(p, files, value))
               ELSE SetInputName(
                      SetCfg(b, addColorSpace(b.cfg,
                          AmfColorSpace(name, p.m_clipName,
                                        FileTransform(value, <<>>, "forward"), NoTransform))),
                      name)
          ELSE b
    IN InputTldElements(b1, p, files, Tail(elems))

\* The scan for the file of an aces:referenceRenderingTransform section, from
\* position i of the sub-elements.  r = [src, exc, fate]: the src of odtFt
\* (the file found is stored in odtFt, not in rrtFt), the exception of
\* checkLutPath, and "hang" when the inner while never advances.  When the
\* inner while ends at the end of the list, the for statement increments the
\* iterator past the end: undefined behaviour, after which the scan is over
\* (goesOn) or the process is dead.
RECURSIVE RrtScan(_, _, _, _, _, _)
RrtScan(r, p, files, elems, i, goesOn) ==
    IF i > Len(elems) THEN r
    ELSE IF ~StrcasecmpEq(elems[i][1], AMF_TAG_RRT)
    THEN RrtScan(r, p, files, elems, i + 1, goesOn)
    ELSE IF i + 1 > Len(elems)
    THEN IF goesOn THEN r ELSE [r EXCEPT !.fate = "crash"]
    ELSE IF StrcasecmpEq(elems[i + 1][1], AMF_TAG_RRT)
    THEN RrtScan(r, p, files, elems, i + 2, goesOn)
    ELSE IF StrcasecmpEq(elems[i + 1][1], AMF_TAG_FILE)
    THEN IF checkLutPath(p, files, elems[i + 1][2]) # NoException
         THEN [r EXCEPT !.exc = checkLutPath(p, files, elems[i + 1][2])]
         ELSE RrtScan([r EXCEPT !.src = elems[i + 1][2]], p, files, elems, i + 2, goesOn)
    ELSE [r EXCEPT !.fate = "hang"]

\* the aces:file branch below an (inverse) output device transform, for the
\* input (direction "inverse") and for the output (direction "forward")
OdtFile(b, p, files, amft, value, direction, name, isInput, goesOn) ==
    IF checkLutPath(p, files, value) # NoException
    THEN Throw(b, checkLutPath(p, files, value))
    ELSE
    LET r == RrtScan([src |-> value, exc |-> NoException, fate |-> ""],
                     p, files, amft.m_subElements, 1, goesOn)
        dispName == getFileDescription(amft)
        gt == GroupTransform(<< FileTransform(<<>>, <<>>, "forward"),
                                FileTransform(r.src, <<>>, direction) >>)
        cs == AmfColorSpace(name, p.m_clipName, NoTransform, gt)
    IN
    IF r.exc # NoException THEN Throw(b, r.exc)
    ELSE IF r.fate # "" THEN [b EXCEPT !.fate = r.fate]
    ELSE
    LET b1 == addDisplayViewChecked(b, dispName, name, name, Str(ACES_LOOK_NAME))
        b2 == SetCfg(b1, addColorSpace(
                            setActiveViews(
                                setActiveDisplays(addInactiveCS(b1.cfg, name), dispName),
                                name),
                            cs))
    IN IF isInput THEN SetInputName(b2, name) ELSE b2

\* the for loop over the sub-elements that follow the marker
RECURSIVE OdtElements(_, _, _, _, _, _, _, _)
OdtElements(b, p, files, amft, elems, direction, isInput, goesOn) ==
    IF elems = <<>> \/ Stopped(b) THEN b
    ELSE
    LET tag   == Head(elems)[1]
        value == Head(elems)[2]
        name  == IF isInput THEN <<"AMF Input Transform LUT -- ">> \o p.m_clipName
                            ELSE <<"AMF Output Transform LUT -- ">> \o p.m_clipName
        b1 == IF StrcasecmpEq(tag, AMF_TAG_TRANSFORMID)
              THEN processOutputTransformId(b, p, value, direction)
              ELSE IF StrcasecmpEq(tag, AMF_TAG_FILE)
              THEN OdtFile(b, p, files, amft, value, direction, name, isInput, goesOn)
              ELSE b
    IN OdtElements(b1, p, files, amft, Tail(elems), direction, isInput, goesOn)

\* the while loop over the sub-elements: it advances only when the element
\* it stands on is the marker, and then runs to the end of the list
OdtSubElements(b, p, files, amft, marker, direction, isInput, goesOn) ==
    IF amft.m_subElements = <<>> \/ Stopped(b) THEN b
    ELSE IF StrcasecmpEq(amft.m_subElements[1][1], marker)
    THEN OdtElements(b, p, files, amft, Tail(amft.m_subElements), direction, isInput, goesOn)
    ELSE Hang(b)

processInputTransform(b, p, files, goesOn) ==
    LET b1 == InputTldElements(b, p, files, p.m_input.m_tldElements)
        b2 == OdtSubElements(b1, p, files, p.m_input, AMF_TAG_IODT, "inverse", TRUE, goesOn)
        cs == searchColorSpaces(p.m_refConfig, Str(ACES))
    IN
    IF Stopped(b2) THEN b2
    ELSE IF OutputTransformEmpty(p.m_input)
    THEN IF IsNull(cs) THEN b2 ELSE ImportInputColorSpace(b2, p, cs)
    ELSE IF b2.info.inputColorSpaceName = NULL \/ b2.info.inputColorSpaceName = <<>>
    THEN Throw(b2, throwMessage(p, "Input transform not found."))
    ELSE b2

\* the loop over m_output.m_tldElements: [b, returned]
RECURSIVE OutputTldElements(_, _, _, _)
OutputTldElements(b, p, files, elems) ==
    IF elems = <<>> \/ Stopped(b) THEN [b |-> b, returned |-> FALSE]
    ELSE
    LET tag   == Head(elems)[1]
        value == Head(elems)[2]
        name  == <<"AMF Output Transform LUT -- ">> \o p.m_clipName
        cs    == AmfColorSpace(name, p.m_clipName, NoTransform,
                               FileTransform(value, <<>>, "forward"))
    IN
    IF StrcasecmpEq(tag, AMF_TAG_TRANSFORMID)
    THEN [b |-> processOutputTransformId(b, p, value, "forward"), returned |-> TRUE]
    ELSE IF StrcasecmpEq(tag, AMF_TAG_FILE)
    THEN IF checkLutPath(p, files, value) # NoException
         THEN [b |-> Throw(b, checkLutPath(p, files, value)), returned |-> TRUE]
         ELSE LET b1 == addDisplayViewChecked(b, getFileDescription(p.m_output), name, name,
                                              Str(ACES_LOOK_NAME))
              IN [b |-> SetCfg(b1, addColorSpace(
                                setActiveViews(
                                    setActiveDisplays(addInactiveCS(b1.cfg, name),
                                                      getFileDescription(p.m_output)),
                                    name),
                                cs)),
                  returned |-> TRUE]
    ELSE OutputTldElements(b, p, files, Tail(elems))

processOutputTransform(b, p, files, goesOn) ==
    IF Stopped(b) THEN b
    ELSE IF OutputTransformEmpty(p.m_output)
    THEN LET vt == GetByName(RefConfig(p.m_refConfig).viewTransforms, Str("Un-tone-mapped"))
             c1 == addDisplayView(b.cfg, Str("None"), Str("Raw"), Str("Raw"), NULL)
         IN IF IsNull(vt) THEN Throw(SetCfg(b, c1), LibraryException("null view transform"))
            ELSE SetCfg(b, addViewTransform(c1, vt))
    ELSE
    LET t == OutputTldElements(b, p, files, p.m_output.m_tldElements) IN
    IF t.returned THEN t.b
    ELSE OdtSubElements(t.b, p, files, p.m_output, AMF_TAG_ODT, "forward", FALSE, goesOn)

-----------------------------------------------------------------------------
(* processLookTransforms                                                   *)

Look(name, processSpace, transform, description) ==
    [name |-> name, processSpace |-> processSpace, transform |-> transform,
     description |-> description]

CDLTransform(slope, offset, power, sat) ==
    [type |-> "CDLTransform", slope |-> slope, offset |-> offset, power |-> power,
     sat |-> sat]

NamedTransform(name, clipName, transform) ==
    [name |-> name, family |-> <<"AMF/">> \o clipName, description |-> <<>>,
     transform |-> transform]

\* the name processLookTransform gives the look
LookName(index, wasApplied, workingLocation, clipName) ==
    <<"AMF Look ", ToString(index)>>
    \o (IF workingLocation = AMF_NO_WORKING_LOCATION
        THEN IF wasApplied THEN <<" (", "Applied", ")">> ELSE <<>>
        ELSE IF wasApplied THEN <<" (", workingLocation, " and ", "Applied", ")">>
                           ELSE <<" (", workingLocation, ")">>)
    \o <<" -- ">> \o clipName

\* lookName.find("Applied)") != npos
NameSaysApplied(lookName) == Contains(lookName, <<"Applied", ")">>)

\* the position of the first sub-element with that tag, 0 if there is none
RECURSIVE FirstIndexOfTag(_, _, _)
FirstIndexOfTag(elems, tag, i) ==
    IF i > Len(elems) THEN 0
    ELSE IF StrcasecmpEq(elems[i][1], tag) THEN i
    ELSE FirstIndexOfTag(elems, tag, i + 1)

\* the value of the last sub-element with that tag after position i, cur if
\* there is none
RECURSIVE LastValueAfter(_, _, _, _)
LastValueAfter(elems, tag, i, cur) ==
    IF i >= Len(elems) THEN cur
    ELSE LastValueAfter(elems, tag, i + 1,
            IF StrcasecmpEq(elems[i + 1][1], tag) THEN elems[i + 1][2] ELSE cur)

\* one of the four scans for a CDL node: after the first marker every
\* sub-element up to the end of the list is read
ValueInNode(elems, marker, tag, cur) ==
    IF FirstIndexOfTag(elems, marker, 1) = 0 THEN cur
    ELSE LastValueAfter(elems, tag, FirstIndexOfTag(elems, marker, 1), cur)

HasNode(elems, marker) == FirstIndexOfTag(elems, marker, 1) # 0

\* extractThreeFloats: operator>> reads numbers separated by white space into
\* arr; the first read that fails stores 0 and every later read does nothing
extractThreeFloats(str, arr) ==
    LET nums == SelectSeq(str, LAMBDA t : t # " ") IN
    [k \in 1..3 |-> IF k <= Len(nums) THEN nums[k]
                    ELSE IF k = Len(nums) + 1 THEN "0"
                    ELSE arr[k]]

\* loadCdlWsTransform.  w = [t, b]: the transform found so far and the build.
\* The three loops share one iterator: WsOuter looks for aces:cdlWorkingSpace,
\* WsMiddle for the to/from marker, WsInner for the transformId or file that
\* follows it.  When WsInner runs off the end, the "++it" after it increments
\* the end iterator: undefined behaviour.
RECURSIVE WsMiddle(_, _, _, _, _, _, _)
RECURSIVE WsInner(_, _, _, _, _, _, _)
WsInner(w, p, files, elems, isTo, k, goesOn) ==
    IF Stopped(w.b) THEN w
    ELSE IF k > Len(elems)
    THEN IF goesOn THEN w ELSE [w EXCEPT !.b = Crash(@)]
    ELSE IF StrcasecmpEq(elems[k][1], AMF_TAG_TRANSFORMID)
    THEN LET cs == searchColorSpaces(p.m_refConfig, elems[k][2]) IN
         IF IsNull(cs) THEN [w EXCEPT !.b = Crash(@)]
         ELSE WsMiddle([t |-> ColorSpaceTransform(IF isTo THEN Str(ACES) ELSE cs.name,
                                                  IF isTo THEN cs.name ELSE Str(ACES),
                                                  "forward", FALSE),
                        b |-> SetCfg(w.b, addColorSpace(w.b.cfg, cs))],
                       p, files, elems, isTo, k + 1, goesOn)
    ELSE IF StrcasecmpEq(elems[k][1], AMF_TAG_FILE)
    THEN IF checkLutPath(p, files, elems[k][2]) # NoException
         THEN [w EXCEPT !.b = Throw(@, checkLutPath(p, files, elems[k][2]))]
         ELSE WsMiddle([w EXCEPT !.t = FileTransform(elems[k][2], <<>>, "forward")],
                       p, files, elems, isTo, k + 1, goesOn)
    ELSE WsInner(w, p, files, elems, isTo, k + 1, goesOn)

WsMiddle(w, p, files, elems, isTo, j, goesOn) ==
    IF Stopped(w.b) \/ j > Len(elems) THEN w
    ELSE IF StrcasecmpEq(elems[j][1], IF isTo THEN AMF_TAG_TOCDLWS ELSE AMF_TAG_FROMCDLWS)
    THEN WsInner(w, p, files, elems, isTo, j, goesOn)
    ELSE WsMiddle(w, p, files, elems, isTo, j + 1, goesOn)

loadCdlWsTransform(b, p, files, amft, isTo, goesOn) ==
    IF FirstIndexOfTag(amft.m_subElements, AMF_TAG_CDLWS, 1) = 0
    THEN [t |-> NoTransform, b |-> b]
    ELSE WsMiddle([t |-> NoTransform, b |-> b], p, files, amft.m_subElements, isTo,
                  FirstIndexOfTag(amft.m_subElements, AMF_TAG_CDLWS, 1) + 1, goesOn)

WithDirection(t, direction) ==
    IF t.type = "FileTransform" THEN FileTransform(t.src, t.cccId, direction)
    ELSE ColorSpaceTransform(t.src, t.dst, direction, t.dataBypass)

\* The group of a CDL look.  appendTransform keeps the pointer it is given,
\* so a transform appended twice is one object: both entries show the
\* direction set last.
CdlGroup(cdl, toTransform, fromTransform) ==
    IF toTransform.type = "none" /\ fromTransform.type = "none"
    THEN GroupTransform(<<cdl>>)
    ELSE IF toTransform.type # "none" /\ fromTransform.type # "none"
    THEN GroupTransform(<<toTransform, cdl, fromTransform>>)
    ELSE IF toTransform.type # "none"
    THEN GroupTransform(<<WithDirection(toTransform, "inverse"), cdl,
                          WithDirection(toTransform, "inverse")>>)
    ELSE GroupTransform(<<WithDirection(fromTransform, "forward"), cdl,
                          WithDirection(fromTransform, "forward")>>)

\* the first loop of processLookTransform, over the sub-elements: the first
\* aces:transformId that resolves or the first aces:file decides.
\* [b, added]: the build, and whether a look was added
RECURSIVE LookIdOrFile(_, _, _, _, _, _, _)
LookIdOrFile(b, p, files, look, elems, lookName, wasApplied) ==
    IF elems = <<>> \/ Stopped(b) THEN [b |-> b, added |-> FALSE]
    ELSE
    LET tag   == Head(elems)[1]
        value == Head(elems)[2]
        lk    == searchLookTransforms(p.m_refConfig, value)
        cccid == getCCCId(look)
        desc  == getFileDescription(look)
                 \o (IF cccid # <<>> THEN <<" (">> \o cccid \o <<")">> ELSE <<>>)
    IN
    IF StrcasecmpEq(tag, AMF_TAG_TRANSFORMID) /\ ~IsNull(lk)
    THEN [b |-> SetCfg(b, addLook(b.cfg, [lk EXCEPT !.name = lookName])),
          added |-> TRUE]
    ELSE IF StrcasecmpEq(tag, AMF_TAG_FILE)
    THEN IF checkLutPath(p, files, value) # NoException
         THEN [b |-> Throw(b, checkLutPath(p, files, value)), added |-> FALSE]
         ELSE [b |-> SetCfg(b, addLook(b.cfg,
                        Look(lookName, Str(ACES), FileTransform(value, cccid, "forward"),
                             desc))),
               added |-> TRUE]
    ELSE LookIdOrFile(b, p, files, look, Tail(elems), lookName, wasApplied)

\* the values the four scans of processLookTransform find
CdlSlope(e)  == ValueInNode(e, AMF_TAG_ASCSOP, AMF_TAG_SLOPE,
                    ValueInNode(e, AMF_TAG_SOPNODE, AMF_TAG_SLOPE, <<>>))
CdlOffset(e) == ValueInNode(e, AMF_TAG_ASCSOP, AMF_TAG_OFFSET,
                    ValueInNode(e, AMF_TAG_SOPNODE, AMF_TAG_OFFSET, <<>>))
CdlPower(e)  == ValueInNode(e, AMF_TAG_ASCSOP, AMF_TAG_POWER,
                    ValueInNode(e, AMF_TAG_SOPNODE, AMF_TAG_POWER, <<>>))
CdlSat(e)    == ValueInNode(e, AMF_TAG_ASCSAT, AMF_TAG_SAT,
                    ValueInNode(e, AMF_TAG_SATNODE, AMF_TAG_SAT, <<>>))
HasCdl(e) ==
    \/ HasNode(e, AMF_TAG_SOPNODE) \/ HasNode(e, AMF_TAG_ASCSOP)
    \/ HasNode(e, AMF_TAG_SATNODE) \/ HasNode(e, AMF_TAG_ASCSAT)

\* std::stod(sat): the first number of the string, <<>> when it holds none
\* (std::invalid_argument)
stod(str) == SelectSeq(str, LAMBDA t : t # " ")

\* the CDLTransform: slope, offset and power go through the one array arr
CdlOf(slopeArr, offset, power, sat) ==
    CDLTransform(slopeArr,
                 extractThreeFloats(offset, slopeArr),
                 extractThreeFloats(power, extractThreeFloats(offset, slopeArr)),
                 stod(sat)[1])

\* the look of the CDL, once both working space transforms are loaded
AddCdlLook(toT, from, lookName, cdl) ==
    [b |-> SetCfg(from.b, addLook(from.b.cfg,
                Look(lookName, Str(ACES), CdlGroup(cdl, toT, from.t), Str("ASC CDL")))),
     added |-> ~Stopped(from.b)]

LoadFromThenAdd(to, p, files, look, lookName, cdl, goesOn) ==
    AddCdlLook(to.t, loadCdlWsTransform(to.b, p, files, look, FALSE, goesOn), lookName, cdl)

\* the CDL part of processLookTransform: [b, added]
LookCdl(b, p, files, look, e, lookName, goesOn) ==
    IF Stopped(b) \/ ~HasCdl(e) THEN [b |-> b, added |-> FALSE]
    ELSE IF stod(CdlSat(e)) = <<>>
    THEN [b |-> Throw(b, LibraryException("std::invalid_argument: stod")), added |-> FALSE]
    ELSE LoadFromThenAdd(loadCdlWsTransform(b, p, files, look, TRUE, goesOn),
                         p, files, look, lookName,
                         CdlOf(extractThreeFloats(CdlSlope(e), <<"0.0", "0.0", "0.0">>),
                               CdlOffset(e), CdlPower(e), CdlSat(e)),
                         goesOn)

\* the working location label processLookTransforms passes for look index:
\* m_numLooksBeforeWorkingLocation is a size_t, so it is never below 0
WorkingLocationLabel(n, index) ==
    IF n < 0 THEN AMF_NO_WORKING_LOCATION
    ELSE IF ToSizeT(index) <= n THEN AMF_PRE_WORKING_LOCATION
    ELSE AMF_POST_WORKING_LOCATION

\* what processLookTransform returns
Returned(r, wasApplied) == [b |-> r.b, result |-> r.added /\ wasApplied]

CdlUnlessAdded(first, p, files, look, lookName, wasApplied, goesOn) ==
    IF first.added \/ Stopped(first.b) THEN Returned(first, wasApplied)
    ELSE Returned(LookCdl(first.b, p, files, look, look.m_subElements, lookName, goesOn),
                  wasApplied)

NamedLook(b, p, files, look, lookName, wasApplied, goesOn) ==
    CdlUnlessAdded(LookIdOrFile(b, p, files, look, look.m_subElements, lookName, wasApplied),
                   p, files, look, lookName, wasApplied, goesOn)

\* processLookTransform: [b, result], result being what it returns
processLookTransform(b, p, files, look, index, workingLocation, goesOn) ==
    NamedLook(b, p, files, look,
              LookName(index, ~mustApply(look), workingLocation, p.m_clipName),
              ~mustApply(look), goesOn)

\* numLooksApplied++ when processLookTransform returned true
CountApplied(r) ==
    IF r.result /\ ~Stopped(r.b) THEN [r.b EXCEPT !.info.numLooksApplied = @ + 1] ELSE r.b

\* the loop of processLookTransforms over m_look
RECURSIVE LookLoop(_, _, _, _, _)
LookLoop(b, p, files, index, goesOn) ==
    IF index > Len(p.m_look) \/ Stopped(b) THEN b
    ELSE LookLoop(CountApplied(
                      processLookTransform(b, p, files, p.m_look[index], index,
                          WorkingLocationLabel(p.m_numLooksBeforeWorkingLocation, index),
                          goesOn)),
                  p, files, index + 1, goesOn)

\* the looks of the config that go into "AMF Unapplied Look Transforms"
UnappliedLooks(looks) ==
    SelectSeq(looks, LAMBDA l : ~NameSaysApplied(l.name) /\ l.name # Str(ACES_LOOK_NAME))

UnappliedLookTransforms(waiting) ==
    [i \in DOMAIN waiting |-> LookTransform(Str(ACES), Str(ACES), waiting[i].name, "forward")]

\* the named transform of the unapplied looks and SHOT_LOOKS
AddUnapplied(b1, clipName, gt_unapplied, name) ==
    IF Stopped(b1) \/ gt_unapplied = <<>> THEN b1
    ELSE SetCfg(b1, addEnvironmentVar(
                       addNamedTransform(b1.cfg,
                           NamedTransform(name, clipName, GroupTransform(gt_unapplied))),
                       Str(CONTEXT_NAME), name))

UnappliedOf(b1, p) ==
    AddUnapplied(b1, p.m_clipName, UnappliedLookTransforms(UnappliedLooks(b1.cfg.looks)),
                 <<"AMF Unapplied Look Transforms -- ">> \o p.m_clipName)

processLookTransforms(b, p, files, goesOn) ==
    IF Stopped(b) THEN b
    ELSE UnappliedOf(LookLoop([b EXCEPT !.info.numLooksApplied = 0], p, files, 1, goesOn), p)

-----------------------------------------------------------------------------
(* The clip name, the library version, the AMF config before the document *)

\* the AMFInfo object a caller creates
NewAMFInfo ==
    [clipIdentifier |-> NULL, clipName |-> NULL, inputColorSpaceName |-> NULL,
     clipColorSpaceName |-> NULL, displayName |-> NULL, viewName |-> NULL,
     numLooksApplied |-> 0]

\* the value of the first aces:clipName or aces:uuid sub-element
RECURSIVE FirstClipName(_)
FirstClipName(elems) ==
    IF elems = <<>> THEN <<>>
    ELSE IF StrcasecmpEq(Head(elems)[1], AMF_TAG_CLIPNAME)
            \/ StrcasecmpEq(Head(elems)[1], AMF_TAG_UUID)
    THEN Head(elems)[2]
    ELSE FirstClipName(Tail(elems))

\* m_xmlFilePath.substr(find_last_of("/") + 1), then substr(0, find_last_of("."))
BaseName(path) ==
    LET name == SubSeq(path, LastIndexOf(path, "/", Len(path)) + 1, Len(path))
        dot  == LastIndexOf(name, ".", Len(name))
    IN IF dot = 0 THEN name ELSE SubSeq(name, 1, dot - 1)

processClipId(p) ==
    LET found == FirstClipName(p.m_clipId.m_subElements) IN
    [p EXCEPT !.m_clipName = IF found = <<>> THEN BaseName(p.m_xmlFilePath) ELSE found]

\* The tokens of the model that are runs of characters outside [0-9a-zA-Z_];
\* every other token is a run of characters inside it.
NonWordTokens == {" ", "-", "--", ".", "/", ":", "(", ")", " (", " -- ", " and ", "\n"}
IsWordToken(t) == t \notin NonWordTokens

\* the clip name used as it is
StripNonAlnum_KeepsAll(str) == str

\* std::regex_replace(m_clipName, "[^0-9a-zA-Z_]", "")
StripNonAlnum(str) == SelectSeq(str, IsWordToken)

RoleName(p) == <<"amf_clip_">> \o StripNonAlnum(p.m_clipName)

\* the value of a decimal digit, -1 for any other character
DigitValue(c) ==
    CASE c = "0" -> 0 [] c = "1" -> 1 [] c = "2" -> 2 [] c = "3" -> 3 [] c = "4" -> 4
      [] c = "5" -> 5 [] c = "6" -> 6 [] c = "7" -> 7 [] c = "8" -> 8 [] c = "9" -> 9
      [] OTHER -> -1

\* std::stoi on a sequence of characters: the number the leading digits
\* spell, -1 (std::invalid_argument) when there is no leading digit
RECURSIVE StoiFrom(_, _, _)
StoiFrom(chars, i, acc) ==
    IF i > Len(chars) \/ DigitValue(chars[i]) < 0 THEN acc
    ELSE StoiFrom(chars, i + 1, (IF acc < 0 THEN 0 ELSE acc) * 10 + DigitValue(chars[i]))

stoi(chars) == StoiFrom(chars, 1, -1)

\* ver.find('.', 2): the 1-based position of the first "." from the third
\* character on, 0 for npos
RECURSIVE FindDotFrom(_, _)
FindDotFrom(ver, i) ==
    IF i > Len(ver) THEN 0 ELSE IF ver[i] = "." THEN i ELSE FindDotFrom(ver, i + 1)

\* the test of the minor version off by one: 2.2 is accepted
VersionVerdict_AcceptsTwo(ver) ==
    IF Len(ver) >= 2 /\ SubSeq(ver, 1, 2) = <<"2", ".">> /\ FindDotFrom(ver, 3) # 0
    THEN IF stoi(SubSeq(ver, 3, FindDotFrom(ver, 3) - 1)) < 0 THEN "stoi"
         ELSE IF stoi(SubSeq(ver, 3, FindDotFrom(ver, 3) - 1)) >= 2 THEN "ok" ELSE "version"
    ELSE "version"

\* loadACESRefConfig: "ok" when the reference config is loaded, "stoi" when
\* std::stoi throws, "version" when throwMessage is called
VersionVerdict(ver) ==
    IF Len(ver) >= 2 /\ SubSeq(ver, 1, 2) = <<"2", ".">> /\ FindDotFrom(ver, 3) # 0
    THEN LET minorVersion == stoi(SubSeq(ver, 3, FindDotFrom(ver, 3) - 1)) IN
         IF minorVersion < 0 THEN "stoi"
         ELSE IF minorVersion >= 3 THEN "ok" ELSE "version"
    ELSE "version"

\* loadACESRefConfig: [p, exc]; configFilePath NULL stands for the built-in
\* studio config
loadACESRefConfig(p, ver, configFilePath) ==
    CASE VersionVerdict(ver) = "ok" ->
            [p   |-> [p EXCEPT !.m_refConfig =
                        IF configFilePath = "NULL" THEN "studio" ELSE configFilePath],
             exc |-> NoException]
      [] VersionVerdict(ver) = "stoi" ->
            [p |-> p, exc |-> LibraryException("std::invalid_argument: stoi")]
      [] OTHER ->
            [p |-> p, exc |-> throwMessage(p, "Requires OCIO library version 2.3.0 or higher.")]

\* initAMFConfig on the raw config it starts from: [cfg, exc]
initAMFConfigOn(p, raw) ==
    LET ref  == RefConfig(p.m_refConfig)
        cs   == GetByName(ref.colorSpaces, Str(ACES))
        c1   == addColorSpace(raw, cs)
        c2   == addColorSpace(c1, GetByName(ref.colorSpaces, Str("ACEScg")))
        c3   == addColorSpace(c2, GetByName(ref.colorSpaces, Str("ACEScct")))
        c4   == addColorSpace(c3, GetByName(ref.colorSpaces, Str("CIE-XYZ-D65")))
        c5   == addColorSpace(c4, GetByName(ref.colorSpaces, Str("Raw")))
        c6   == [c5 EXCEPT !.inactiveColorSpaces = <<Str("CIE-XYZ-D65")>>]
        c7   == setRole(setRole(setRole(setRole(setRole(setRole(c6,
                    Str("scene_linear"), Str("ACEScg")),
                    Str("aces_interchange"), Str(ACES)),
                    Str("cie_xyz_d65_interchange"), Str("CIE-XYZ-D65")),
                    Str("color_timing"), Str("ACEScct")),
                    Str("compositing_log"), Str("ACEScct")),
                    Str("default"), NULL)
        c8   == [c7 EXCEPT !.fileRulesDefault = Str(ACES)]
        c9   == addLook(c8, Look(Str(ACES_LOOK_NAME), Str(ACES),
                                 ColorSpaceTransform(<<"$", CONTEXT_NAME>>, Str(ACES),
                                                     "forward", TRUE),
                                 <<>>))
        c10  == addEnvironmentVar(c9, Str(CONTEXT_NAME), Str(ACES))
    IN IF IsNull(cs)
       THEN [cfg |-> raw, exc |-> throwMessage(p, "Reference config is missing ACES color space.")]
       ELSE [cfg |-> [c10 EXCEPT !.searchPaths =
                            Append(@, UpToLastSlash(p.m_xmlFilePath) \o <<"/">>)],
             exc |-> NoException]

\* initAMFConfig that leaves the display sRGB of the raw config in place
initAMFConfig_KeepsSrgb(p) ==
    initAMFConfigOn(p, removeColorSpace([CreateRaw EXCEPT !.version = <<2, 3>>], Str("Raw")))

\* initAMFConfig: [cfg, exc]
initAMFConfig(p) ==
    initAMFConfigOn(p, removeColorSpace(removeDisplayView([CreateRaw EXCEPT !.version = <<2, 3>>],
                                                          Str("sRGB"), Str("Raw")),
                                        Str("Raw")))

\* determineClipColorSpace: the new clipColorSpaceName
determineClipColorSpace(b, p) ==
    IF ~OutputTransformEmpty(p.m_output) /\ ~mustApply(p.m_output)
    THEN getDisplay0(b.cfg)
    ELSE IF mustApply(p.m_input) THEN b.info.inputColorSpaceName
    ELSE Str(ACES)

-----------------------------------------------------------------------------
(* handleWorkingLocation                                                   *)

MatrixTransformIdentity == [type |-> "MatrixTransform", identity |-> TRUE]

\* the forward scan of the looks of the config: i counts the looks passed
RECURSIVE ForwardLooks(_, _, _, _, _)
ForwardLooks(looks, index, i, n, acc) ==
    IF index > Len(looks) THEN acc
    ELSE LET lookName == looks[index].name IN
         IF NameSaysApplied(lookName) THEN ForwardLooks(looks, index + 1, i + 1, n, acc)
         ELSE IF lookName = Str(ACES_LOOK_NAME) THEN ForwardLooks(looks, index + 1, i, n, acc)
         ELSE IF ToSizeT(i) <= n
         THEN ForwardLooks(looks, index + 1, i + 1, n,
                  Append(acc, LookTransform(Str(ACES), Str(ACES), lookName, "forward")))
         ELSE ForwardLooks(looks, index + 1, i + 1, n, acc)

\* the backward scan: i starts at 1 and is decremented; compared with the
\* size_t m_numLooksBeforeWorkingLocation it is converted to size_t
RECURSIVE BackwardLooks(_, _, _, _, _)
BackwardLooks(looks, index, i, n, acc) ==
    IF index < 1 THEN acc
    ELSE LET lookName == looks[index].name IN
         IF NameSaysApplied(lookName)
         THEN BackwardLooks(looks, index - 1, i - 1, n,
                  IF ToSizeT(i) <= n
                  THEN Append(acc, LookTransform(Str(ACES), Str(ACES), lookName, "inverse"))
                  ELSE acc)
         ELSE IF lookName = Str(ACES_LOOK_NAME) THEN BackwardLooks(looks, index - 1, i, n, acc)
         ELSE BackwardLooks(looks, index - 1, i - 1, n, acc)

\* Config::getActiveDisplays() / getActiveViews(): the list as one string
ActiveString(list) == IF list = <<>> THEN <<>> ELSE list[1]

\* a const char* given to a setter that takes a string: null reads as ""
OrEmpty(str) == IF str = NULL THEN <<>> ELSE str

workingForward(b, p) ==
    LET n == p.m_numLooksBeforeWorkingLocation
        outputApplied == ~OutputTransformEmpty(p.m_output) /\ ~mustApply(p.m_output)
    IN IF outputApplied THEN FALSE
       ELSE IF ToSizeT(b.info.numLooksApplied) < n THEN TRUE
       ELSE IF ToSizeT(b.info.numLooksApplied) > n THEN FALSE
       ELSE TRUE

\* the group the forward or the backward path builds
WorkingGroup(b, p) ==
    LET n == p.m_numLooksBeforeWorkingLocation
        outputExists  == ~OutputTransformEmpty(p.m_output)
        outputApplied == outputExists /\ ~mustApply(p.m_output)
    IN IF workingForward(b, p)
       THEN ForwardLooks(b.cfg.looks, 1, 1, n,
                  IF mustApply(p.m_input)
                  THEN <<ColorSpaceTransform(OrEmpty(b.info.inputColorSpaceName), Str(ACES),
                                             "forward", TRUE)>>
                  ELSE <<>>)
       ELSE BackwardLooks(b.cfg.looks, Len(b.cfg.looks), 1, n,
                  IF outputExists /\ outputApplied
                  THEN <<DisplayViewTransform(Str(ACES), ActiveString(b.cfg.activeDisplays),
                                              ActiveString(b.cfg.activeViews), "inverse", FALSE)>>
                  ELSE <<>>)

\* an identity matrix in a group that holds nothing
NeverEmpty(gt_unapplied) ==
    IF gt_unapplied = <<>> THEN <<MatrixTransformIdentity>> ELSE gt_unapplied

\* the named transform of the working location
RegisterWorking(b, p, gt_unapplied) ==
    IF Stopped(b) \/ p.m_numLooksBeforeWorkingLocation < 0 THEN b
    ELSE SetCfg(b, addNamedTransform(b.cfg,
             NamedTransform(<<"AMF Clip to Working Space Transform -- ">> \o p.m_clipName,
                            p.m_clipName, GroupTransform(gt_unapplied))))

\* the group registered as the path left it
handleWorkingLocation_EmptyGroupKept(b, p) == RegisterWorking(b, p, WorkingGroup(b, p))

handleWorkingLocation(b, p) == RegisterWorking(b, p, NeverEmpty(WorkingGroup(b, p)))

-----------------------------------------------------------------------------
(* Config::validate, as far as the compiler depends on it: what a config  *)
(* needs to pass.  A config that fails one of these is refused.            *)

\* a colour space name with a context variable, resolved in the environment
ResolveContext(cfg, name) ==
    IF name # <<>> /\ name[1] = "$" THEN OrEmpty(getEnvironmentVar(cfg, Tail(name)))
    ELSE name

\* the names of colour spaces a transform refers to
RECURSIVE ColorSpaceReferences(_, _)
ColorSpaceReferences(cfg, t) ==
    CASE t.type = "ColorSpaceTransform" ->
            {ResolveContext(cfg, t.src), ResolveContext(cfg, t.dst)}
      [] t.type = "LookTransform" -> {t.src, t.dst}
      [] t.type = "DisplayViewTransform" -> {t.src}
      [] t.type = "GroupTransform" ->
            UNION {ColorSpaceReferences(cfg, t.transforms[i]) : i \in DOMAIN t.transforms}
      [] OTHER -> {}

\* Transform::validate
RECURSIVE TransformValid(_)
TransformValid(t) ==
    CASE t.type = "ColorSpaceTransform" -> t.src # <<>> /\ t.dst # <<>>
      [] t.type = "LookTransform" -> t.src # <<>> /\ t.dst # <<>>
      [] t.type = "DisplayViewTransform" ->
            t.src # <<>> /\ t.display # <<>> /\ t.view # <<>>
      [] t.type = "FileTransform" -> t.src # <<>>
      [] t.type = "GroupTransform" ->
            \A i \in DOMAIN t.transforms : TransformValid(t.transforms[i])
      [] OTHER -> TRUE

\* every transform the config holds
AllInternalTransforms(cfg) ==
    {cfg.colorSpaces[i].toReference : i \in DOMAIN cfg.colorSpaces}
    \cup {cfg.colorSpaces[i].fromReference : i \in DOMAIN cfg.colorSpaces}
    \cup {cfg.namedTransforms[i].transform : i \in DOMAIN cfg.namedTransforms}
    \cup {cfg.looks[i].transform : i \in {j \in DOMAIN cfg.looks :
                                            "transform" \in DOMAIN cfg.looks[j]}}

Defined(cfg, name) == HasName(cfg.colorSpaces, name) \/ HasName(cfg.namedTransforms, name)

validate(cfg) ==
    /\ \A r \in cfg.roles : HasName(cfg.colorSpaces, r[2])
    /\ cfg.displays # <<>>
    /\ \A i \in DOMAIN cfg.displays :
          /\ \A j \in DOMAIN cfg.displays[i].views :
                Defined(cfg, cfg.displays[i].views[j].colorSpace)
          /\ cfg.displays[i].sharedViews # <<>> => HasName(cfg.colorSpaces, cfg.displays[i].name)
    /\ \A t \in AllInternalTransforms(cfg) :
          /\ TransformValid(t)
          /\ \A name \in ColorSpaceReferences(cfg, t) : Defined(cfg, name)

-----------------------------------------------------------------------------
(* AMF documents and the events expat delivers for them                    *)

\* an XML element: a name, attributes, character data and child elements
Elem(name, atts, text, children) ==
    [name |-> name, atts |-> atts, text |-> text, children |-> children]
Leaf(name, text) == Elem(name, <<>>, text, <<>>)

\* what XML_Parse delivers: a start tag, an end tag, character data, or
\* text that is not well-formed XML
SE(name, atts) == [kind |-> "start", name |-> name, atts |-> atts, s |-> <<>>]
EE(name)       == [kind |-> "end",   name |-> name, atts |-> <<>>, s |-> <<>>]
CD(s)          == [kind |-> "chars", name |-> "",   atts |-> <<>>, s |-> s]
BAD            == [kind |-> "bad",   name |-> "",   atts |-> <<>>, s |-> <<>>]

NEWLINE == <<"\n">>
INDENT  == <<"  ">>

\* the white space before a tag at depth d; none at depth 0 (len == 0 is
\* never delivered)
Indent(d) == IF d = 0 THEN <<>> ELSE <<CD(INDENT)>>
TextOf(e) == IF e.text = <<>> THEN <<>> ELSE <<CD(e.text)>>

\* the lines of an element written one tag per line, children indented;
\* expat delivers the newline that ends a line as a payload of its own
RECURSIVE LinesOf(_, _)
RECURSIVE LinesOfAll(_, _)
LinesOf(e, d) ==
    IF e.children = <<>>
    THEN << Indent(d) \o <<SE(e.name, e.atts)>> \o TextOf(e) \o <<EE(e.name), CD(NEWLINE)>> >>
    ELSE << Indent(d) \o <<SE(e.name, e.atts), CD(NEWLINE)>> >>
         \o LinesOfAll(e.children, d + 1)
         \o << Indent(d) \o <<EE(e.name), CD(NEWLINE)>> >>
LinesOfAll(es, d) ==
    IF es = <<>> THEN <<>> ELSE LinesOf(Head(es), d) \o LinesOfAll(Tail(es), d)

\* the events of an element written without any white space
RECURSIVE EventsOf(_)
RECURSIVE EventsOfAll(_)
EventsOf(e) ==
    <<SE(e.name, e.atts)>> \o TextOf(e) \o EventsOfAll(e.children) \o <<EE(e.name)>>
EventsOfAll(es) ==
    IF es = <<>> THEN <<>> ELSE EventsOf(Head(es)) \o EventsOfAll(Tail(es))

\* The lines std::getline reads from a file that holds the document and ends
\* with a newline: after the last line of text one more, empty, line is read
\* and parsed as the last one.
\*   "indented"  one tag per line
\*   "compact"   the whole document on one line
\*   "malformed" indented, with text that is not XML inside the second line
\*   "truncated" indented, cut before its last line
\*   "empty"     a file of no bytes
FileLines(root, layout) ==
    LET ind == LinesOf(root, 0) IN
    CASE layout = "indented"  -> ind \o << <<>> >>
      [] layout = "compact"   -> << EventsOf(root) \o <<CD(NEWLINE)>>, <<>> >>
      [] layout = "malformed" -> <<ind[1], <<BAD>>>> \o SubSeq(ind, 2, Len(ind)) \o << <<>> >>
      [] layout = "truncated" -> SubSeq(ind, 1, Len(ind) - 1) \o << <<BAD>> >>
      [] OTHER                -> << <<BAD>> >>

Applied == << <<"applied", "true">> >>

\* clipId
ClipIdOf(tag, value) == <<Elem(AMF_TAG_CLIPID, <<>>, <<>>, <<Leaf(tag, value)>>)>>
CLIP_SHOT == <<"Shot", " ", "01">>
CLIP_DASH == <<"--">>
CLIP_UUID == <<"urn", ":", "uuid", ":", "afe1">>
CLIP_APPLIED == <<"Take", " (", "Applied", ")">>

\* paths
AMF_IN_DIR   == <<"/", "d", "/", "clip", ".", "amf">>
AMF_BARE     == <<"clip", ".", "amf">>
AMF_DOTFILE  == <<"/", "d", "/", ".", "amf">>
AMF_MISSING  == <<"/", "d", "/", "missing", ".", "amf">>
LUT_RELATIVE == <<"luts", "/", "look", ".", "cube">>
LUT_ABSOLUTE == <<"/", "luts", "/", "look", ".", "cube">>
AmfFiles     == {AMF_IN_DIR, AMF_BARE, AMF_DOTFILE}

\* what an ifstream can open: the AMF files, and
\*   "none"     no LUT at all
\*   "written"  the LUTs under the paths as the documents write them
\*   "resolved" the relative LUT under the directory of /d/clip.amf only
FileSystemKeys == {"none", "written", "resolved"}
FileSystem(key) ==
    AmfFiles \cup
    (CASE key = "written"  -> {LUT_RELATIVE, LUT_ABSOLUTE}
       [] key = "resolved" -> {<<"/", "d", "/">> \o LUT_RELATIVE}
       [] OTHER            -> {})

\* shapes of aces:inputTransform
InputOf(atts, children) == <<Elem(AMF_TAG_INPUT_TRANSFORM, atts, <<>>, children)>>
InputShapes ==
    [absent     |-> <<>>,
     id         |-> InputOf(<<>>, <<Leaf(AMF_TAG_TRANSFORMID, ID_IDT)>>),
     idApplied  |-> InputOf(Applied, <<Leaf(AMF_TAG_TRANSFORMID, ID_IDT)>>),
     unknown    |-> InputOf(<<>>, <<Leaf(AMF_TAG_TRANSFORMID, ID_UNKNOWN)>>),
     attribute  |-> InputOf(Applied, <<>>),
     file       |-> InputOf(<<>>, <<Leaf(AMF_TAG_FILE, LUT_RELATIVE)>>),
     inverseId  |-> InputOf(<<>>, <<Elem(AMF_TAG_IODT, <<>>, <<>>,
                                      <<Leaf(AMF_TAG_TRANSFORMID, ID_ODT)>>)>>),
     inverseFile |-> InputOf(<<>>, <<Elem(AMF_TAG_IODT, <<>>, <<>>,
                                      <<Leaf(AMF_TAG_DESC, <<"Inverse", " ", "LUT">>),
                                        Leaf(AMF_TAG_FILE, LUT_RELATIVE)>>)>>),
     \* well-formed XML that nests the tags in other ways than an AMF does
     aroundPipeline |-> InputOf(<<>>, <<Elem(AMF_TAG_PIPELINE, <<>>, <<>>, <<>>),
                                        Leaf(AMF_TAG_TRANSFORMID, ID_IDT)>>),
     aroundInput |-> InputOf(<<>>, <<Elem(AMF_TAG_IODT, <<>>, <<>>, InputOf(<<>>, <<>>))>>),
     insideClipId |-> <<Elem(AMF_TAG_CLIPID, <<>>, <<>>,
                             InputOf(<<>>, <<Elem(AMF_TAG_CLIPID, <<>>, <<>>, <<>>)>>))>>]

\* shapes of aces:outputTransform
OutputOf(atts, children) == <<Elem(AMF_TAG_OUTPUT_TRANSFORM, atts, <<>>, children)>>
OutputShapes ==
    [absent     |-> <<>>,
     odt        |-> OutputOf(<<>>, <<Elem(AMF_TAG_ODT, <<>>, <<>>,
                                      <<Leaf(AMF_TAG_TRANSFORMID, ID_ODT)>>)>>),
     odtApplied |-> OutputOf(Applied, <<Elem(AMF_TAG_ODT, <<>>, <<>>,
                                      <<Leaf(AMF_TAG_TRANSFORMID, ID_ODT)>>)>>),
     odtNoView  |-> OutputOf(<<>>, <<Elem(AMF_TAG_ODT, <<>>, <<>>,
                                      <<Leaf(AMF_TAG_TRANSFORMID, ID_ODT_P3)>>)>>),
     id         |-> OutputOf(<<>>, <<Leaf(AMF_TAG_TRANSFORMID, ID_ODT)>>),
     unknown    |-> OutputOf(<<>>, <<Leaf(AMF_TAG_TRANSFORMID, ID_UNKNOWN)>>),
     attribute  |-> OutputOf(Applied, <<>>),
     odtFile    |-> OutputOf(<<>>, <<Elem(AMF_TAG_ODT, <<>>, <<>>,
                                      <<Leaf(AMF_TAG_DESC, <<"Output", " ", "LUT">>),
                                        Leaf(AMF_TAG_FILE, LUT_RELATIVE)>>)>>),
     file       |-> OutputOf(<<>>, <<Leaf(AMF_TAG_FILE, LUT_RELATIVE)>>)]

\* shapes of aces:lookTransform
LookOf(atts, children) == Elem(AMF_TAG_LOOK_TRANSFORM, atts, <<>>, children)
SopNode == Elem(AMF_TAG_SOPNODE, <<>>, <<>>,
                <<Leaf(AMF_TAG_SLOPE,  <<"1.1", " ", "1.2", " ", "1.3">>),
                  Leaf(AMF_TAG_OFFSET, <<"0.1", " ", "0.2">>),
                  Leaf(AMF_TAG_POWER,  <<"1.0">>)>>)
SatNode == Elem(AMF_TAG_SATNODE, <<>>, <<>>, <<Leaf(AMF_TAG_SAT, <<"0.9">>)>>)
CdlWs(tag, leaf) == Elem(AMF_TAG_CDLWS, <<>>, <<>>, <<Elem(tag, <<>>, <<>>, <<leaf>>)>>)
LookShapes ==
    [id          |-> LookOf(<<>>, <<Leaf(AMF_TAG_TRANSFORMID, ID_LMT)>>),
     idApplied   |-> LookOf(Applied, <<Leaf(AMF_TAG_TRANSFORMID, ID_LMT)>>),
     unknown     |-> LookOf(<<>>, <<Leaf(AMF_TAG_TRANSFORMID, ID_UNKNOWN)>>),
     description |-> LookOf(Applied, <<Leaf(AMF_TAG_DESC, <<"a", " ", "look">>)>>),
     file        |-> LookOf(<<>>, <<Leaf(AMF_TAG_DESC, <<"Show", " ", "LUT">>),
                                    Leaf(AMF_TAG_FILE, LUT_RELATIVE)>>),
     fileAbsolute |-> LookOf(Applied, <<Leaf(AMF_TAG_FILE, LUT_ABSOLUTE)>>),
     cdl         |-> LookOf(<<>>, <<SopNode, SatNode>>),
     cdlApplied  |-> LookOf(<< <<"APPLIED", "True">> >>, <<SopNode, SatNode>>),
     sopOnly     |-> LookOf(<<>>, <<SopNode>>),
     cdlTo       |-> LookOf(<<>>, <<CdlWs(AMF_TAG_TOCDLWS, Leaf(AMF_TAG_TRANSFORMID, ID_CSC)),
                                    SopNode, SatNode>>),
     cdlFrom     |-> LookOf(<<>>, <<CdlWs(AMF_TAG_FROMCDLWS, Leaf(AMF_TAG_TRANSFORMID, ID_CSC)),
                                    SopNode, SatNode>>),
     cdlBoth     |-> LookOf(<<>>, <<Elem(AMF_TAG_CDLWS, <<>>, <<>>,
                                         <<Elem(AMF_TAG_TOCDLWS, <<>>, <<>>,
                                                <<Leaf(AMF_TAG_TRANSFORMID, ID_CSC)>>),
                                           Elem(AMF_TAG_FROMCDLWS, <<>>, <<>>,
                                                <<Leaf(AMF_TAG_TRANSFORMID, ID_CSC)>>)>>),
                                    SopNode, SatNode>>)]

WorkingLocation == Leaf(AMF_TAG_WORKING_LOCATION, <<>>)

\* the looks of a pipeline: the shapes named, with aces:workingLocation
\* after the first wl of them (wl = -1: no aces:workingLocation)
RECURSIVE LooksOf(_, _)
LooksOf(names, wl) ==
    (IF wl = 0 THEN <<WorkingLocation>> ELSE <<>>)
    \o (IF names = <<>> THEN <<>>
        ELSE <<LookShapes[Head(names)]>> \o LooksOf(Tail(names), IF wl > 0 THEN wl - 1 ELSE -1))

\* An AMF file: its path, its layout and its document.
Scenario(path, layout, clip, input, looks, wl, output) ==
    [path |-> path, layout |-> layout, clip |-> clip, input |-> input, looks |-> looks,
     wl |-> wl, output |-> output]

DocumentOf(sc) ==
    Elem("aces:acesMetadataFile", <<>>, <<>>,
         sc.clip \o
         <<Elem(AMF_TAG_PIPELINE, <<>>, <<>>,
                InputShapes[sc.input] \o LooksOf(sc.looks, sc.wl) \o OutputShapes[sc.output])>>)

\* the lines an ifstream on the path gives: none when it cannot be opened
LinesOfFile(sc, files) ==
    IF sc.path \in files THEN FileLines(DocumentOf(sc), sc.layout) ELSE <<>>

-----------------------------------------------------------------------------
(* The calls explored                                                      *)

MaxRuns == 2

\* GetVersion() as a string of characters
V_2_3_0  == <<"2", ".", "3", ".", "0">>
V_2_10_1 == <<"2", ".", "1", "0", ".", "1">>
V_2_2_0  == <<"2", ".", "2", ".", "0">>
V_1_1_0  == <<"1", ".", "1", ".", "0">>
V_3_0_0  == <<"3", ".", "0", ".", "0">>
LibVersions == {V_2_3_0, V_2_10_1, V_2_2_0, V_1_1_0, V_3_0_0}

\* configFilePath: "NULL" for the built-in config, or a reference config
ConfigFilePaths == {"NULL"} \cup RefConfigKeys

\* the AMFInfo, file and document before the first call
NoCall == Scenario(<<>>, "indented", <<>>, "absent", <<>>, -1, "absent")

\* documents explored with every library, reference config and file system
CoreScenarios ==
    {Scenario(AMF_IN_DIR, "indented", ClipIdOf(AMF_TAG_CLIPNAME, CLIP_SHOT), i, l, -1, o) :
        i \in {"absent", "id", "unknown"}, l \in {<<>>, <<"idApplied">>},
        o \in {"absent", "odt"}}

\* every input shape with every output shape
InOutScenarios ==
    {Scenario(AMF_IN_DIR, "indented", ClipIdOf(AMF_TAG_CLIPNAME, CLIP_SHOT), i, <<"id">>, -1, o) :
        i \in DOMAIN InputShapes, o \in DOMAIN OutputShapes}

\* up to two looks of every shape, and a working location among simple looks
SeqsUpTo2(S) == {<<>>} \cup {<<a>> : a \in S} \cup {<<a, b>> : a \in S, b \in S}
LookScenarios ==
    {Scenario(AMF_IN_DIR, "indented", ClipIdOf(AMF_TAG_CLIPNAME, CLIP_SHOT),
              "absent", l, -1, "odt") : l \in SeqsUpTo2(DOMAIN LookShapes)}
    \cup
    {Scenario(AMF_IN_DIR, "indented", ClipIdOf(AMF_TAG_CLIPNAME, CLIP_SHOT),
              "id", l, wl, o) :
        l \in SeqsUpTo2({"id", "idApplied", "description"}), wl \in 0..2,
        o \in {"odt", "odtApplied"}}

\* clip names, paths and layouts
ClipScenarios ==
    {Scenario(path, "indented", c, "absent", <<>>, -1, "absent") :
        path \in {AMF_IN_DIR, AMF_BARE, AMF_DOTFILE, AMF_MISSING},
        c \in {<<>>, ClipIdOf(AMF_TAG_CLIPNAME, CLIP_SHOT), ClipIdOf(AMF_TAG_CLIPNAME, CLIP_DASH),
               ClipIdOf(AMF_TAG_UUID, CLIP_UUID)}}
    \cup
    {Scenario(AMF_IN_DIR, layout, ClipIdOf(AMF_TAG_CLIPNAME, CLIP_SHOT), i, <<"cdl">>, -1, o) :
        layout \in {"compact", "malformed", "truncated", "empty"},
        i \in {"absent", "inverseId"}, o \in {"absent", "odt"}}
    \cup
    {Scenario(AMF_IN_DIR, "indented", ClipIdOf(AMF_TAG_CLIPNAME, CLIP_APPLIED),
              "absent", l, -1, "absent") : l \in {<<"id">>, <<"idApplied">>, <<"cdl">>}}
    \cup
    {Scenario(AMF_IN_DIR, "indented", ClipIdOf(AMF_TAG_CLIPNAME, CLIP_APPLIED),
              "id", <<"id">>, 1, o) : o \in {"odt", "odtApplied"}}

\* documents that name a LUT file, from a path with and without a directory
FileScenarios ==
    {Scenario(path, "indented", ClipIdOf(AMF_TAG_CLIPNAME, CLIP_SHOT), i, l, -1, o) :
        path \in {AMF_IN_DIR, AMF_BARE},
        i \in {"absent", "file", "inverseFile"},
        l \in {<<>>, <<"file">>, <<"fileAbsolute">>},
        o \in {"absent", "odtFile", "file"}}

\* documents of a later call with the same AMFInfo object
LaterScenarios ==
    {Scenario(AMF_IN_DIR, "indented", <<>>, i, <<>>, -1, o) :
        i \in {"absent", "unknown", "attribute"}, o \in {"absent", "unknown"}}

Scenarios(n, ver, ref, fsKey, before) ==
    IF n > 0 THEN LaterScenarios \cup {before}
    ELSE CoreScenarios
         \cup (IF ver = V_2_3_0 /\ ref = "self-described" /\ fsKey = "resolved"
               THEN InOutScenarios \cup LookScenarios \cup ClipScenarios ELSE {})
         \cup (IF ver = V_2_3_0 /\ ref = "self-described" THEN FileScenarios ELSE {})

-----------------------------------------------------------------------------
(* Impl::parse, step by step                                               *)

\* m_amfConfig == NULL
NoConfig == [null |-> TRUE]

\* the end of Impl::parse with the clip colour space computed for the role
\* but not stored in the AMFInfo
FinishParse_ClipColorSpaceNotStored(b, p) ==
    LET displayName == getDisplay0(b.cfg)
        info1 == [b.info EXCEPT !.displayName = displayName,
                                !.viewName = getView0(b.cfg, displayName)]
        roleName == RoleName(p)
        cfg1  == setRole(b.cfg, roleName, determineClipColorSpace([b EXCEPT !.info = info1], p))
        found == {r \in cfg1.roles : LowerCase(r[1]) = LowerCase(roleName)}
    IN [cfg |-> cfg1,
        info |-> [info1 EXCEPT
                    !.clipIdentifier = IF found = {} THEN @ ELSE (CHOOSE r \in found : TRUE)[1]],
        fate |-> "",
        exc |-> IF validate(cfg1) THEN NoException
                ELSE LibraryException("Config failed validation")]

\* the end of Impl::parse after handleWorkingLocation: the display and view
\* of the AMFInfo, the clip colour space, the clip role
ClipRoleSet(b, p) ==
    LET displayName == getDisplay0(b.cfg)
        info1 == [b.info EXCEPT !.displayName = displayName,
                                !.viewName = getView0(b.cfg, displayName)]
        clipColorSpaceName == determineClipColorSpace([b EXCEPT !.info = info1], p)
        roleName == RoleName(p)
        cfg1  == setRole(b.cfg, roleName, clipColorSpaceName)
        found == {r \in cfg1.roles : LowerCase(r[1]) = LowerCase(roleName)}
        info2 == [info1 EXCEPT
                    !.clipColorSpaceName = clipColorSpaceName,
                    !.clipIdentifier = IF found = {} THEN @ ELSE (CHOOSE r \in found : TRUE)[1]]
    IN [cfg |-> cfg1, info |-> info2, fate |-> "", exc |-> NoException]

\* validate called and what it found ignored
Validated_ResultIgnored(b) == b

\* m_amfConfig->validate()
Validated(b) ==
    IF validate(b.cfg) THEN b ELSE [b EXCEPT !.exc = LibraryException("Config failed validation")]

\* the config returned as it is, without validation
FinishParse_NotValidated(b, p) == ClipRoleSet(b, p)

\* the end of Impl::parse: the clip role, then the validation
FinishParse(b, p) == Validated(ClipRoleSet(b, p))

Build == [cfg |-> m_amfConfig, info |-> amfInfo, exc |-> NoException, fate |-> ""]

\* where a build step that ended as b leaves the compilation
After(b, next) ==
    /\ m_amfConfig' = b.cfg
    /\ amfInfo' = b.info
    /\ exc' = b.exc
    /\ pc' = IF b.exc # NoException THEN "failed"
             ELSE IF b.fate = "hang" THEN "hung"
             ELSE IF b.fate = "crash" THEN "crashed"
             ELSE next

\* what the caller holds when a call is over: the config returned, if one
\* was, and the fields of its AMFInfo object
CallerHolds ==
    [amf |-> amf, outcome |-> pc,
     config |-> IF pc = "done" THEN m_amfConfig ELSE NoConfig,
     info |-> amfInfo]

\* the same document, whatever the white space between its tags
SameDocument(sc, before) == [sc EXCEPT !.layout = "indented"] = [before EXCEPT !.layout = "indented"]

\* the document that has just compiled, written again on one line
Reformatted ==
    IF pc = "done" /\ amf.layout = "indented" THEN {[amf EXCEPT !.layout = "compact"]} ELSE {}

NoResult == [amf |-> NoCall, outcome |-> "idle", config |-> NoConfig, info |-> NewAMFInfo]

Init ==
    /\ pc = "idle"
    /\ runs = 0
    /\ libVersion \in LibVersions
    /\ refGiven \in ConfigFilePaths
    /\ fs \in FileSystemKeys
    /\ fileLines = <<>>
    /\ pending = <<>>
    /\ impl = NewImpl
    /\ m_amfConfig = NoConfig
    /\ amfInfo = NewAMFInfo
    /\ amf = NoCall
    /\ exc = NoException
    /\ earlier = NoResult

\* Impl::parse up to the call of loadACESRefConfig, on the members p of the
\* AMFParser that is called: reset, the path, the stream.  The caller passes
\* the AMFInfo object it has, used before or not, and keeps what the call
\* before gave it when it compiles the same document again.
Called(p, files) ==
    /\ pc \in {"idle", "done", "failed"}
    /\ runs < MaxRuns
    /\ \E sc \in files :
          /\ amf' = sc
          /\ impl' = [reset(p) EXCEPT !.m_xmlFilePath = sc.path]
          /\ fileLines' = LinesOfFile(sc, FileSystem(fs))
          /\ earlier' = IF SameDocument(sc, amf) THEN CallerHolds ELSE NoResult
    /\ pending' = <<>>
    /\ m_amfConfig' = NoConfig
    /\ exc' = NoException
    /\ runs' = runs + 1
    /\ pc' = "load"
    /\ UNCHANGED <<libVersion, refGiven, fs, amfInfo>>

\* CreateFromAMF: buildConfig of a new AMFParser, whose m_impl is NULL
CreateFromAMF ==
    Called(NewImpl, Scenarios(runs, libVersion, refGiven, fs, amf) \cup Reformatted)

\* AMFParser::buildConfig of the AMFParser of the call before, which the
\* caller kept: m_impl is the Impl that call left
BuildConfig == runs > 0 /\ Called(impl, Scenarios(runs, libVersion, refGiven, fs, amf))

LoadACESRefConfig ==
    /\ pc = "load"
    /\ LET r == loadACESRefConfig(impl, libVersion, refGiven) IN
          /\ impl' = r.p
          /\ exc' = r.exc
          /\ pc' = IF r.exc = NoException THEN "init" ELSE "failed"
    /\ UNCHANGED <<earlier, runs, libVersion, refGiven, fs, fileLines, pending, m_amfConfig,
                   amfInfo, amf>>

\* initAMFConfig, and m_lineNumber = 0 before the first line
InitAMFConfig ==
    /\ pc = "init"
    /\ LET r == initAMFConfig(impl) IN
          /\ m_amfConfig' = r.cfg
          /\ exc' = r.exc
          /\ pc' = IF r.exc = NoException THEN "read" ELSE "failed"
    /\ impl' = [impl EXCEPT !.m_lineNumber = IF pc' = "read" THEN 0 ELSE @]
    /\ UNCHANGED <<earlier, runs, libVersion, refGiven, fs, fileLines, pending, amfInfo, amf>>

\* std::getline, ++m_lineNumber, and the call of XML_Parse on the line
ReadLine ==
    /\ pc = "read" /\ pending = <<>> /\ fileLines # <<>>
    /\ impl' = [impl EXCEPT !.m_lineNumber = @ + 1]
    /\ pending' = Head(fileLines)
    /\ fileLines' = Tail(fileLines)
    /\ UNCHANGED <<earlier, pc, runs, libVersion, refGiven, fs, m_amfConfig, amfInfo, amf, exc>>

Delivered(kind) == pc = "read" /\ pending # <<>> /\ Head(pending).kind = kind

StartElement ==
    /\ Delivered("start")
    /\ impl' = StartElementHandler(impl, Head(pending).name, Head(pending).atts)
    /\ pending' = Tail(pending)
    /\ UNCHANGED <<earlier, pc, runs, libVersion, refGiven, fs, fileLines, m_amfConfig, amfInfo,
                   amf, exc>>

EndElement ==
    /\ Delivered("end")
    /\ impl' = EndElementHandler(impl, Head(pending).name)
    /\ pending' = Tail(pending)
    /\ \E goesOn \in BOOLEAN :
          pc' = IF TldUnderflow(impl, Head(pending).name) /\ ~goesOn THEN "crashed" ELSE pc
    /\ UNCHANGED <<earlier, runs, libVersion, refGiven, fs, fileLines, m_amfConfig, amfInfo,
                   amf, exc>>

CharacterData ==
    /\ Delivered("chars")
    /\ impl' = CharacterDataHandler(impl, Head(pending).s)
    /\ pending' = Tail(pending)
    /\ UNCHANGED <<earlier, pc, runs, libVersion, refGiven, fs, fileLines, m_amfConfig, amfInfo,
                   amf, exc>>

\* XML_Parse returns XML_STATUS_ERROR: Impl::parse(buffer, lastLine) throws
XmlError ==
    /\ Delivered("bad")
    /\ exc' = throwMessage(impl, "XML parsing error")
    /\ pc' = "failed"
    /\ UNCHANGED <<earlier, runs, libVersion, refGiven, fs, fileLines, pending, impl, m_amfConfig,
                   amfInfo, amf>>

\* the stream is no longer good: the loop ends and processClipId runs
ProcessClipId ==
    /\ pc = "read" /\ pending = <<>> /\ fileLines = <<>>
    /\ impl' = processClipId(impl)
    /\ pc' = "input"
    /\ UNCHANGED <<earlier, runs, libVersion, refGiven, fs, fileLines, pending, m_amfConfig,
                   amfInfo, amf, exc>>

ProcessInputTransform ==
    /\ pc = "input"
    /\ \E goesOn \in BOOLEAN :
          After(processInputTransform(Build, impl, FileSystem(fs), goesOn), "looks")
    /\ UNCHANGED <<earlier, runs, libVersion, refGiven, fs, fileLines, pending, impl, amf>>

ProcessLookTransforms ==
    /\ pc = "looks"
    /\ \E goesOn \in BOOLEAN :
          After(processLookTransforms(Build, impl, FileSystem(fs), goesOn), "output")
    /\ UNCHANGED <<earlier, runs, libVersion, refGiven, fs, fileLines, pending, impl, amf>>

ProcessOutputTransform ==
    /\ pc = "output"
    /\ \E goesOn \in BOOLEAN :
          After(processOutputTransform(Build, impl, FileSystem(fs), goesOn), "working")
    /\ UNCHANGED <<earlier, runs, libVersion, refGiven, fs, fileLines, pending, impl, amf>>

HandleWorkingLocation ==
    /\ pc = "working"
    /\ After(handleWorkingLocation(Build, impl), "finish")
    /\ UNCHANGED <<earlier, runs, libVersion, refGiven, fs, fileLines, pending, impl, amf>>

\* the rest of Impl::parse: on "done" m_amfConfig is returned to the caller
Finish ==
    /\ pc = "finish"
    /\ After(FinishParse(Build, impl), "done")
    /\ UNCHANGED <<earlier, runs, libVersion, refGiven, fs, fileLines, pending, impl, amf>>

Next ==
    \/ CreateFromAMF
    \/ BuildConfig
    \/ LoadACESRefConfig
    \/ InitAMFConfig
    \/ ReadLine
    \/ StartElement
    \/ EndElement
    \/ CharacterData
    \/ XmlError
    \/ ProcessClipId
    \/ ProcessInputTransform
    \/ ProcessLookTransforms
    \/ ProcessOutputTransform
    \/ HandleWorkingLocation
    \/ Finish

Spec == Init /\ [][Next]_vars

-----------------------------------------------------------------------------
(* Properties                                                              *)

\* the compilation returned a config: m_amfConfig is the built config
Compiled == pc = "done"

\* the error messages
MSG_INPUT_NOT_FOUND == "Input transform not found."
MSG_LIBRARY_VERSION == "Requires OCIO library version 2.3.0 or higher."
MSG_LUT_PATH        == "File transform refers to path that does not exist"

\* C1: an AMF with K lookTransform elements, whatever they hold, gives a
\* built config with exactly K + 1 looks: the seed look and one look per
\* lookTransform.
C1_OneLookPerLookTransform ==
    Compiled => Len(m_amfConfig.looks) = Len(amf.looks) + 1

\* C1, the case that fails: a compiled AMF with one lookTransform that holds
\* a description only, or a transformId no look of the reference config
\* describes, and a built config that holds the seed look alone.
C1_LookDropped ==
    /\ Compiled
    /\ amf.looks \in {<<"description">>, <<"unknown">>}
    /\ Len(impl.m_look) = 1
    /\ Len(m_amfConfig.looks) = 1

MatchesClipRole(name) ==
    /\ name # <<>>
    /\ name[1] = "amf_clip_"
    /\ \A i \in 2..Len(name) : IsWordToken(name[i])

\* C3 as stated: for every clip name the compiler can derive, the role name
\* matches ^amf_clip_[0-9A-Za-z_]+$, with a non-empty run after the prefix.
C3_RoleNameNonEmptyRun ==
    Compiled => MatchesClipRole(amfInfo.clipIdentifier) /\ Len(amfInfo.clipIdentifier) >= 2

\* C3, amended: the role name matches ^amf_clip_[0-9A-Za-z_]*$, and the run
\* after the prefix is non-empty exactly when the clip name holds a
\* character of [0-9A-Za-z_].
C3_RoleNamePattern ==
    Compiled =>
        /\ MatchesClipRole(amfInfo.clipIdentifier)
        /\ Len(amfInfo.clipIdentifier) >= 2
              <=> \E i \in DOMAIN impl.m_clipName : IsWordToken(impl.m_clipName[i])

\* C3 happens for a clip name of words and other characters
C3_Witness ==
    /\ Compiled
    /\ impl.m_clipName = CLIP_SHOT
    /\ amfInfo.clipIdentifier = <<"amf_clip_", "shot", "01">>

\* the built config holds the display None with the single view Raw and no
\* other display, and None / Raw are the display and view the AMFInfo names
OnlyDisplayNone ==
    /\ Len(m_amfConfig.displays) = 1
    /\ m_amfConfig.displays[1].name = Str("None")
    /\ ViewNames(m_amfConfig.displays[1]) = <<Str("Raw")>>
    /\ amfInfo.displayName = Str("None")
    /\ amfInfo.viewName = Str("Raw")

\* C4 as stated: when the output transform is absent or empty, then for
\* every shape of the input transform the built config has exactly one
\* display, None, with the single view Raw, and None is the active display.
C4_NoOutputOnlyNone ==
    (Compiled /\ OutputTransformEmpty(impl.m_output)) => OnlyDisplayNone

\* C4, amended: when the output transform is absent or empty and the input
\* transform holds no inverse output device or inverse reference rendering
\* transform, the built config has exactly one display, None, with the
\* single view Raw, and these are the display and view of the AMFInfo.
C4_NoOutputNoInverseOnlyNone ==
    (Compiled /\ OutputTransformEmpty(impl.m_output) /\ ~impl.m_input.m_isInverse)
        => OnlyDisplayNone

\* C4 happens for an input transform that assigns a colour space
C4_Witness ==
    /\ Compiled
    /\ amf.output = "absent"
    /\ amf.input = "id"
    /\ OnlyDisplayNone

\* C5: a successful compile of an AMF with a non-empty output transform
\* leaves exactly one active display and one active view, the ones bound for
\* the output; a display of the input is never what is left.
C5_OneActiveDisplayAndView ==
    (Compiled /\ ~OutputTransformEmpty(impl.m_output)) =>
        /\ Len(m_amfConfig.activeDisplays) = 1
        /\ Len(m_amfConfig.activeViews) = 1

\* C5, the case that fails: the output transform holds a transformId that
\* binds nothing, the input transform an inverse output device transform: the
\* compile succeeds, no display and no view is active, and the one display
\* of the config is the one bound for the input.
C5_NoActiveDisplay ==
    /\ Compiled
    /\ amf.input = "inverseId"
    /\ amf.output \in {"unknown", "odtNoView"}
    /\ m_amfConfig.activeDisplays = <<>>
    /\ m_amfConfig.activeViews = <<>>
    /\ amfInfo.displayName = Str("Rec.1886 Rec.709 - Display")

\* the compilation is past processInputTransform
PastInput == pc \in {"looks", "output", "working", "finish", "done"}

\* the input transforms of the documents that are not empty and assign no
\* input colour space
AssignsNoInput == amf.input \in {"unknown", "attribute"}

\* C6: an AMF whose input transform is not empty and assigns no input colour
\* space makes the compiler raise "Input transform not found", whatever the
\* AMFInfo holds, also when an earlier compile filled it: the compilation
\* never gets past processInputTransform.
C6_InputTransformNotFound ==
    (runs >= 1 /\ AssignsNoInput) => ~PastInput

\* C6, the case that fails: the second compile with an AMFInfo whose
\* inputColorSpaceName the first compile set
C6_StaleInputColorSpace ==
    /\ runs = 2
    /\ AssignsNoInput
    /\ Compiled
    /\ amfInfo.inputColorSpaceName # NULL

\* C7: an AMF without inputTransform, compiled against any reference config
\* that holds ACES2065-1, gets inputColorSpaceName = ACES2065-1, and the
\* built config holds that colour space.  (First compile: the AMFInfo is new.)
C7_DefaultInputIsAces ==
    (runs = 1 /\ amf.input = "absent" /\ amf.path \in AmfFiles /\ PastInput
       /\ HasName(RefConfig(impl.m_refConfig).colorSpaces, Str(ACES)))
        => /\ amfInfo.inputColorSpaceName = Str(ACES)
           /\ HasName(m_amfConfig.colorSpaces, Str(ACES))

\* C7, the cases that fail: the built-in studio config, where a description
\* of another colour space names ACES2065-1 first, and a reference config no
\* description of which names it
C7_OtherInputChosen ==
    /\ runs = 1 /\ amf.input = "absent" /\ Compiled
    /\ \/ impl.m_refConfig = "studio" /\ amfInfo.inputColorSpaceName = Str("ACEScct")
       \/ impl.m_refConfig = "plain"  /\ amfInfo.inputColorSpaceName = NULL

\* the library versions of the model that are 2.x with x >= 3
SupportedLibrary == libVersion \in {V_2_3_0, V_2_10_1}

\* the reference configs of the model whose version is 2.x with x >= 3
SupportedRefConfig ==
    refGiven \in {"NULL", "self-described", "studio", "plain", "no-aces"}

\* the compilation ended in the version error, and built no config
VersionRefused ==
    /\ pc = "failed"
    /\ exc.what = MSG_LIBRARY_VERSION
    /\ m_amfConfig = NoConfig

C9_ErrorHasLine ==
    pc = "failed" => exc.hasLine /\ exc.line >= 1

\* C9, a case that fails: the reference config has no ACES2065-1 and the
\* error says "At line (0)"
C9_LineZero ==
    /\ pc = "failed"
    /\ impl.m_refConfig = "no-aces"
    /\ exc.hasLine /\ exc.line = 0

\* the directory of the AMF files of the model, "" for the current directory
DirectoryOf(path) == IF path = AMF_BARE THEN <<>> ELSE <<"/", "d", "/">>

\* the path is readable as written, or it is relative and readable under the
\* directory of the AMF file
LutReadable(lutPath) ==
    \/ lutPath \in FileSystem(fs)
    \/ lutPath[1] # "/" /\ (DirectoryOf(amf.path) \o lutPath) \in FileSystem(fs)

\* the one LUT path of a document whose only file is the file of its look
LookLutPath == IF amf.looks = <<"file">> THEN LUT_RELATIVE ELSE LUT_ABSOLUTE

UnappliedName == <<"AMF Unapplied Look Transforms -- ">> \o impl.m_clipName

\* the lookTransform record the look of that name was built from: the names
\* start with "AMF Look <index>"
LookRecordOf(name) ==
    impl.m_look[CHOOSE i \in DOMAIN impl.m_look : ToString(i) = name[2]]

\* a look added from the AMF whose lookTransform is not marked applied
SomeAddedLookUnapplied ==
    \E k \in 2..Len(m_amfConfig.looks) : mustApply(LookRecordOf(m_amfConfig.looks[k].name))

\* C11: after every successful compile, for every clip name, the named
\* transform "AMF Unapplied Look Transforms -- <clipName>" exists and
\* SHOT_LOOKS is its name exactly when a look added from the AMF is not
\* marked applied; otherwise it does not exist and SHOT_LOOKS is ACES2065-1.
C11_UnappliedLooksTransform ==
    Compiled =>
        IF SomeAddedLookUnapplied
        THEN /\ HasName(m_amfConfig.namedTransforms, UnappliedName)
             /\ getEnvironmentVar(m_amfConfig, Str(CONTEXT_NAME)) = UnappliedName
        ELSE /\ ~HasName(m_amfConfig.namedTransforms, UnappliedName)
             /\ getEnvironmentVar(m_amfConfig, Str(CONTEXT_NAME)) = Str(ACES)

\* C11, the case that fails: the clip name itself holds "Applied)", the one
\* look of the AMF is not marked applied and was added, and no named
\* transform of the unapplied looks exists
C11_ClipNameSaysApplied ==
    /\ Compiled
    /\ impl.m_clipName = CLIP_APPLIED
    /\ Len(m_amfConfig.looks) = 2
    /\ mustApply(impl.m_look[1])
    /\ ~HasName(m_amfConfig.namedTransforms, UnappliedName)
    /\ getEnvironmentVar(m_amfConfig, Str(CONTEXT_NAME)) = Str(ACES)

\* C11 without such clip names
C11_OtherClipNames ==
    (Compiled /\ ~Contains(impl.m_clipName, <<"Applied", ")">>)) => C11_UnappliedLooksTransform

\* the document holds an aces:workingLocation tag: it is written after the
\* first amf.wl lookTransform elements
MarkerWritten == amf.wl \in 0..Len(amf.looks)

\* the location label the look of index i is to carry
LabelFor(i) ==
    IF ~MarkerWritten THEN AMF_NO_WORKING_LOCATION
    ELSE IF i <= amf.wl THEN AMF_PRE_WORKING_LOCATION
    ELSE AMF_POST_WORKING_LOCATION

\* the index in the name of a look added from the AMF
LookIndexOf(name) == CHOOSE i \in DOMAIN impl.m_look : ToString(i) = name[2]

\* the looks added from the AMF carry the names of their index, location
\* and applied mark
LooksLabelled ==
    \A k \in 2..Len(m_amfConfig.looks) :
        m_amfConfig.looks[k].name =
            LookName(LookIndexOf(m_amfConfig.looks[k].name),
                     ~mustApply(LookRecordOf(m_amfConfig.looks[k].name)),
                     LabelFor(LookIndexOf(m_amfConfig.looks[k].name)),
                     impl.m_clipName)

\* C12: the location label in a look name follows the workingLocation
\* marker: no label when the AMF holds no aces:workingLocation, otherwise
\* Pre-working-location for look i <= N and Post-working-location above,
\* N being the number of looks before the tag.
C12_LocationLabel == Compiled => LooksLabelled

\* C12, the case that fails: the AMF holds no aces:workingLocation and its
\* look is named "AMF Look 1 (Pre-working-location) -- <clip>"
C12_LabelWithoutMarker ==
    /\ Compiled
    /\ ~MarkerWritten
    /\ Len(m_amfConfig.looks) >= 2
    /\ m_amfConfig.looks[2].name =
           LookName(1, FALSE, AMF_PRE_WORKING_LOCATION, impl.m_clipName)

\* C12 for the documents that hold the tag
C12_LabelWithMarker == (Compiled /\ MarkerWritten) => LooksLabelled

\* the name of the named transform of the working location
ClipToWorkingName == <<"AMF Clip to Working Space Transform -- ">> \o impl.m_clipName

\* C13: the working-location reassembler runs only if a workingLocation
\* marker was recorded: an AMF without aces:workingLocation gives a built
\* config without "AMF Clip to Working Space Transform -- <clipName>".
C13_NoMarkerNoWorkingTransform ==
    (Compiled /\ ~MarkerWritten) => ~HasName(m_amfConfig.namedTransforms, ClipToWorkingName)

\* C13, the case that fails: no aces:workingLocation in the AMF, the marker
\* count still holds its initial value, and the named transform is there
C13_WorkingTransformWithoutMarker ==
    /\ Compiled
    /\ ~MarkerWritten
    /\ impl.m_numLooksBeforeWorkingLocation = ToSizeT(-1)
    /\ HasName(m_amfConfig.namedTransforms, ClipToWorkingName)

\* the transforms of the group of the working-location named transform
WorkingGroupTransforms ==
    GetByName(m_amfConfig.namedTransforms, ClipToWorkingName).transform.transforms

\* what the forward or backward path appended: the identity matrix stands
\* for an empty group
AppendedByPath ==
    IF WorkingGroupTransforms = <<MatrixTransformIdentity>> THEN <<>>
    ELSE WorkingGroupTransforms

\* the looks of the built config without the seed look, in registration order
NonSeedLooks == SelectSeq(m_amfConfig.looks, LAMBDA l : l.name # Str(ACES_LOOK_NAME))

\* the lookTransform of the look is marked applied
MarkedApplied(look) == ~mustApply(LookRecordOf(look.name))

\* the positions of the looks that go forward: not beyond the working
\* location, and not applied
ForwardPositions ==
    SelectSeq([k \in DOMAIN NonSeedLooks |-> k],
              LAMBDA k : k <= amf.wl /\ ~MarkedApplied(NonSeedLooks[k]))

ExpectedForward ==
    (IF mustApply(impl.m_input)
     THEN <<ColorSpaceTransform(OrEmpty(amfInfo.inputColorSpaceName), Str(ACES), "forward", TRUE)>>
     ELSE <<>>)
    \o [j \in DOMAIN ForwardPositions |->
           LookTransform(Str(ACES), Str(ACES), NonSeedLooks[ForwardPositions[j]].name, "forward")]

\* the AMF holds the marker, the output is not marked applied and no more
\* looks are applied than stand before the marker
ForwardCase ==
    /\ Compiled /\ MarkerWritten
    /\ mustApply(impl.m_output)
    /\ amfInfo.numLooksApplied <= amf.wl

\* C14: on the forward path the group of "AMF Clip to Working Space
\* Transform" is, in this order, a ColorSpaceTransform from the input colour
\* space to ACES2065-1 with data bypass exactly when the input is not marked
\* applied, then a forward LookTransform for each look, seed apart, in
\* registration order, whose position is <= N and which is not applied, and
\* nothing else.
C14_ForwardGroup == ForwardCase => AppendedByPath = ExpectedForward

\* C14, the case that fails: the clip name holds "Applied)", the one look
\* stands before the marker and is not marked applied, and the group holds
\* the ColorSpaceTransform alone
C14_ForwardLookLeftOut ==
    /\ ForwardCase
    /\ impl.m_clipName = CLIP_APPLIED
    /\ amf.wl = 1 /\ Len(NonSeedLooks) = 1 /\ ~MarkedApplied(NonSeedLooks[1])
    /\ Len(WorkingGroupTransforms) = 1
    /\ WorkingGroupTransforms[1].type = "ColorSpaceTransform"

\* C14 for the clip names that do not hold "Applied)"
C14_ForwardGroupOtherClipNames ==
    (ForwardCase /\ ~Contains(impl.m_clipName, <<"Applied", ")">>))
        => AppendedByPath = ExpectedForward

\* C14 happens with a look before and a look after the marker
C14_ForwardBothSides ==
    /\ ForwardCase
    /\ amf.wl = 1 /\ Len(NonSeedLooks) = 2
    /\ Len(WorkingGroupTransforms) = 2
    /\ WorkingGroupTransforms[2] =
           LookTransform(Str(ACES), Str(ACES), NonSeedLooks[1].name, "forward")

\* the look at reverse index r: 1 for the look registered last
LookFromEnd(r) == NonSeedLooks[Len(NonSeedLooks) - r + 1]

\* the reverse indices of the looks that go backward: applied, and not
\* beyond N
BackwardPositions ==
    SelectSeq([r \in DOMAIN NonSeedLooks |-> r],
              LAMBDA r : r <= amf.wl /\ MarkedApplied(LookFromEnd(r)))

ExpectedBackward ==
    (IF ~mustApply(impl.m_output)
     THEN <<DisplayViewTransform(Str(ACES), ActiveString(m_amfConfig.activeDisplays),
                                 ActiveString(m_amfConfig.activeViews), "inverse", FALSE)>>
     ELSE <<>>)
    \o [j \in DOMAIN BackwardPositions |->
           LookTransform(Str(ACES), Str(ACES), LookFromEnd(BackwardPositions[j]).name, "inverse")]

\* the AMF holds the marker, and the output is marked applied or more looks
\* are applied than stand before the marker
BackwardCase ==
    /\ Compiled /\ MarkerWritten
    /\ ~mustApply(impl.m_output) \/ amfInfo.numLooksApplied > amf.wl

\* C15: on the backward path the group of "AMF Clip to Working Space
\* Transform" is an inverse DisplayViewTransform from ACES2065-1 to the
\* active display and view exactly when the output is applied, then, the
\* looks walked from the last registered one, an inverse LookTransform for
\* exactly the applied looks whose reverse index is <= N.
C15_BackwardGroup == BackwardCase => AppendedByPath = ExpectedBackward

\* C15, the case that fails: two applied looks, the marker after the first
\* (N = 1), the output applied: the group holds the inverse LookTransform of
\* both looks, the one at reverse index 2 included
C15_BackwardLookBeyondMarker ==
    /\ BackwardCase
    /\ amf.wl = 1 /\ Len(NonSeedLooks) = 2
    /\ MarkedApplied(NonSeedLooks[1]) /\ MarkedApplied(NonSeedLooks[2])
    /\ ~mustApply(impl.m_output)
    /\ Len(WorkingGroupTransforms) = 3
    /\ WorkingGroupTransforms[3] =
           LookTransform(Str(ACES), Str(ACES), NonSeedLooks[1].name, "inverse")

\* C16: whenever "AMF Clip to Working Space Transform -- <clipName>" is
\* registered its group holds at least one transform, and when no path
\* appended a transform of its own it holds exactly one identity matrix.
C16_WorkingGroupNeverEmpty ==
    (pc \in {"finish", "done"} /\ HasName(m_amfConfig.namedTransforms, ClipToWorkingName))
        => /\ WorkingGroupTransforms # <<>>
           /\ (\A k \in DOMAIN WorkingGroupTransforms :
                    WorkingGroupTransforms[k].type = "MatrixTransform")
                => WorkingGroupTransforms = <<MatrixTransformIdentity>>

\* C16 happens when the one look is applied and stands after the marker,
\* and the output is not applied: the backward path appends nothing
C16_Witness ==
    /\ Compiled
    /\ amf.wl = 0 /\ amf.looks = <<"idApplied">> /\ amf.output = "odt"
    /\ WorkingGroupTransforms = <<MatrixTransformIdentity>>

\* the lookTransform elements of the AMF whose applied attribute is "true",
\* whatever the case of the letters
ElementsMarkedApplied == {i \in DOMAIN impl.m_look : ~mustApply(impl.m_look[i])}

\* C17: after compilation AMFInfo.numLooksApplied is the number of
\* lookTransform elements of the AMF whose applied attribute is "true",
\* whatever else they hold.
C17_NumLooksApplied ==
    Compiled => amfInfo.numLooksApplied = Cardinality(ElementsMarkedApplied)

\* C17, the case that fails: the one lookTransform is marked applied and
\* holds a description only; no look is added for it and it is not counted
C17_AppliedLookNotCounted ==
    /\ Compiled
    /\ amf.looks = <<"description">>
    /\ Cardinality(ElementsMarkedApplied) = 1
    /\ amfInfo.numLooksApplied = 0

\* C17 for the AMFs every lookTransform of which added a look
C17_NumLooksAppliedOfAddedLooks ==
    (Compiled /\ Len(NonSeedLooks) = Len(impl.m_look))
        => amfInfo.numLooksApplied = Cardinality(ElementsMarkedApplied)

\* the displays a transform names
RECURSIVE DisplayReferences(_)
DisplayReferences(t) ==
    CASE t.type = "DisplayViewTransform" -> {t.display}
      [] t.type = "GroupTransform" ->
            UNION {DisplayReferences(t.transforms[i]) : i \in DOMAIN t.transforms}
      [] OTHER -> {}

NamesOf(objs) == [i \in DOMAIN objs |-> objs[i].name]
DisplaysAndViews(cfg) ==
    [i \in DOMAIN cfg.displays |-> <<cfg.displays[i].name, ViewNames(cfg.displays[i])>>]
Equivalent(c1, c2) ==
    /\ NamesOf(c1.colorSpaces) = NamesOf(c2.colorSpaces)
    /\ c1.roles = c2.roles
    /\ DisplaysAndViews(c1) = DisplaysAndViews(c2)
    /\ NamesOf(c1.looks) = NamesOf(c2.looks)

\* the same AMF was compiled before, with the same reference config, library
\* and files, and this second compilation is over
CompiledAgain == earlier # NoResult /\ earlier.amf = amf /\ pc \in {"done", "failed"}

StaleLooks == Len(impl.m_look) > Len(amf.looks)

C19_NewParserSameResult ==
    (CompiledAgain /\ ~StaleLooks) =>
        /\ pc = earlier.outcome
        /\ pc = "done" => Equivalent(m_amfConfig, earlier.config) /\ amfInfo = earlier.info


\* the steps of Impl::parse in the order of the code
BuildSteps == <<"load", "init", "read", "input", "looks", "output", "working", "finish", "done">>

\* a step of the compilation goes to the next step of the code, or ends the
\* compilation without a config; a call starts at the first step
InOrder ==
    \/ pc' \in {"failed", "hung", "crashed"}
    \/ pc \in {"idle", "done", "failed"} /\ pc' = BuildSteps[1]
    \/ \E i \in 1..(Len(BuildSteps) - 1) : pc = BuildSteps[i] /\ pc' = BuildSteps[i + 1]

\* C20: every config returned by CreateFromAMF passes validate(): the steps
\* run in the order input, looks, output, working-location transform, clip
\* role; the config is returned by the step that sets the clip role and
\* validates what it has set, and is not changed after that; a compilation
\* that raised an error returns no config.
C20_ValidatedThenReturned ==
    /\ [](Compiled => validate(m_amfConfig) /\ exc = NoException)
    /\ [](exc # NoException => pc = "failed" /\ CallerHolds.config = NoConfig)
    /\ [][pc' # pc => InOrder]_vars
    /\ [][pc' = "done" /\ pc # "done" => pc = "finish" /\ validate(m_amfConfig')]_vars
    /\ [][pc = "done" /\ pc' = "done" => m_amfConfig' = m_amfConfig]_vars

\* a config was returned that every step has changed: an input colour
\* space, two looks, a display of the output, the working-location
\* transform, the clip role
C20_Witness ==
    /\ Compiled /\ runs = 1
    /\ amf.input = "id" /\ amf.output = "odt"
    /\ Len(m_amfConfig.looks) = 3
    /\ HasName(m_amfConfig.namedTransforms, ClipToWorkingName)
    /\ \E r \in m_amfConfig.roles : LowerCase(r[1]) = LowerCase(RoleName(impl))
    /\ validate(m_amfConfig)


\* white space: spaces, tabs, newlines
WhitespaceTokens == {" ", "  ", "\t", "\n"}
WhitespaceOnly(s) == \A i \in DOMAIN s : s[i] \in WhitespaceTokens

\* the entries of every record: sub-elements and top-level elements
Recorded(p) ==
    <<p.m_clipId.m_subElements,
      p.m_input.m_subElements, p.m_input.m_tldElements,
      p.m_output.m_subElements, p.m_output.m_tldElements,
      [i \in DOMAIN p.m_look |-> p.m_look[i].m_subElements]>>

\* C21: a character-data event whose payload is empty or only white space
\* adds no entry to the sub-elements or top-level elements of any record,
\* whatever the state of the router.
C21_WhitespaceAddsNothing ==
    [][(Delivered("chars") /\ WhitespaceOnly(Head(pending).s))
          => Recorded(impl') = Recorded(impl)]_vars

\* a look record holds a sub-element whose value is the indentation that
\* followed the start tag of a nested element
C21_IndentationRecorded ==
    \E i \in DOMAIN impl.m_look :
        \E k \in DOMAIN impl.m_look[i].m_subElements :
            /\ impl.m_look[i].m_subElements[k][2] # <<>>
            /\ WhitespaceOnly(impl.m_look[i].m_subElements[k][2])


\* the whole document was read and its events routed
Parsed == pc \in {"input", "looks", "output", "working", "finish", "done"}

\* the document has a workingLocation tag in its pipeline and the file is read
MarkerRead == MarkerWritten /\ amf.path \in FileSystem(fs)

C22_LooksBeforeMarkerNewParser ==
    (Parsed /\ MarkerRead /\ ~StaleLooks) => impl.m_numLooksBeforeWorkingLocation = amf.wl


\* the file was read to its end as well-formed XML: every start tag has had
\* its end tag
AllTagsClosed == Parsed /\ amf.path \in FileSystem(fs) /\ amf.layout \in {"indented", "compact"}

\* the router is where it was before the first tag
RouterAtRest(p) ==
    /\ ~p.m_isInsideInputTransform /\ ~p.m_isInsideOutputTransform
    /\ ~p.m_isInsideLookTransform /\ ~p.m_isInsideClipId /\ ~p.m_isInsidePipeline
    /\ p.m_input.m_tldTemp = <<>> /\ p.m_output.m_tldTemp = <<>>
    /\ p.m_currentElement = ""

\* C23: every end tag undoes what its start tag did, so after the last end
\* tag of a properly nested document the five context flags are false, both
\* TLD stacks are empty and currentElement is empty.
C23_RouterAtRest == AllTagsClosed => RouterAtRest(impl)

\* an inputTransform that holds a nested pipeline element is never closed:
\* the end tag of the nested pipeline clears the pipeline flag, and the end
\* tag of the inputTransform is not looked at any more
C23_InputLeftOpen ==
    /\ AllTagsClosed /\ amf.input = "aroundPipeline"
    /\ impl.m_isInsideInputTransform
    /\ impl.m_input.m_tldTemp # <<>>

\* documents nested as an AMF nests them leave the router at rest
C23_RouterAtRestAmfNesting ==
    (AllTagsClosed /\ amf.input \notin {"aroundPipeline", "aroundInput", "insideClipId"})
        => RouterAtRest(impl)


\* C28: for every properly nested sequence of start and end tags the router
\* never pops an empty TLD stack: every removeTld on the input or output
\* record has a matching addTld before it that is not popped yet.
C28_NoPopOfEmptyStack ==
    (Delivered("end") /\ amf.layout \in {"indented", "compact"})
        => ~TldUnderflow(impl, Head(pending).name)

\* the end tag of an inputTransform that was opened inside a clipId, and
\* so never pushed, is routed to the input record after a nested clipId
\* has closed: removeTld runs on the empty stack
C28_PopOfEmptyStack ==
    /\ Delivered("end") /\ amf.layout = "indented" /\ amf.input = "insideClipId"
    /\ StrcasecmpEq(Head(pending).name, AMF_TAG_INPUT_TRANSFORM)
    /\ impl.m_input.m_tldTemp = <<>>
    /\ TldUnderflow(impl, Head(pending).name)

\* documents nested as an AMF nests them never pop an empty stack
C28_NoPopOfEmptyStackAmfNesting ==
    (Delivered("end") /\ amf.input \notin {"aroundPipeline", "aroundInput", "insideClipId"})
        => ~TldUnderflow(impl, Head(pending).name)


\* the looks of the built config that are CDL looks
CdlLooks == SelectSeq(m_amfConfig.looks, LAMBDA l : l.description = Str("ASC CDL"))

\* the lookTransform of the look names a working space to go to, to come from
HasTo(look)   == HasNode(LookRecordOf(look.name).m_subElements, AMF_TAG_TOCDLWS)
HasFrom(look) == HasNode(LookRecordOf(look.name).m_subElements, AMF_TAG_FROMCDLWS)

IsTo(t, direction) ==
    t.type = "ColorSpaceTransform" /\ t.src = Str(ACES) /\ t.direction = direction
IsFrom(t, direction) ==
    t.type = "ColorSpaceTransform" /\ t.dst = Str(ACES) /\ t.direction = direction

\* the truth table of the group of a CDL look
CdlTruthTable(look, g) ==
    IF ~HasTo(look) /\ ~HasFrom(look)
    THEN Len(g) = 1 /\ g[1].type = "CDLTransform"
    ELSE /\ Len(g) = 3 /\ g[2].type = "CDLTransform"
         /\ IF HasTo(look) /\ HasFrom(look)
            THEN IsTo(g[1], "forward") /\ IsFrom(g[3], "forward")
            ELSE IF HasTo(look)
            THEN IsTo(g[1], "forward") /\ IsTo(g[3], "inverse")
            ELSE IsFrom(g[1], "inverse") /\ IsFrom(g[3], "forward")

\* C24: the group of a CDL look is [cdl] without a working-space transform,
\* [to, cdl, from] with both, [to forward, cdl, to inverse] with only
\* toCdlWorkingSpace and [from inverse, cdl, from forward] with only
\* fromCdlWorkingSpace: in the last two the first and third entries have
\* opposite directions.
C24_CdlGroupTruthTable ==
    Compiled =>
        \A k \in DOMAIN CdlLooks : CdlTruthTable(CdlLooks[k], CdlLooks[k].transform.transforms)

\* a CDL look with only toCdlWorkingSpace whose first and third entries are
\* both inverse
C24_SameDirectionTwice ==
    /\ Compiled
    /\ \E k \in DOMAIN CdlLooks :
          /\ HasTo(CdlLooks[k]) /\ ~HasFrom(CdlLooks[k])
          /\ Len(CdlLooks[k].transform.transforms) = 3
          /\ IsTo(CdlLooks[k].transform.transforms[1], "inverse")
          /\ IsTo(CdlLooks[k].transform.transforms[3], "inverse")

\* the two cases that append no transform twice follow the table
C24_CdlGroupNoneOrBoth ==
    Compiled =>
        \A k \in DOMAIN CdlLooks :
            (HasTo(CdlLooks[k]) = HasFrom(CdlLooks[k]))
                => CdlTruthTable(CdlLooks[k], CdlLooks[k].transform.transforms)


\* a lookTransform record with a SOP node and no saturation node
SopWithoutSat(rec) ==
    /\ HasNode(rec.m_subElements, AMF_TAG_SOPNODE) \/ HasNode(rec.m_subElements, AMF_TAG_ASCSOP)
    /\ ~HasNode(rec.m_subElements, AMF_TAG_SATNODE) /\ ~HasNode(rec.m_subElements, AMF_TAG_ASCSAT)

\* the looks step is over and the compilation goes on
PastLooks == pc \in {"output", "working", "finish", "done"}

\* the CDL look built from record i takes its slope from the SOP node
SopLookAdded(i) ==
    \E k \in DOMAIN CdlLooks :
        /\ LookIndexOf(CdlLooks[k].name) = i
        /\ \E j \in DOMAIN CdlLooks[k].transform.transforms :
              /\ CdlLooks[k].transform.transforms[j].type = "CDLTransform"
              /\ CdlLooks[k].transform.transforms[j].slope
                    = extractThreeFloats(CdlSlope(impl.m_look[i].m_subElements),
                                         <<"0.0", "0.0", "0.0">>)

\* C25: a lookTransform with a SOP node and no SatNode or ASC_SAT compiles
\* without error: the looks step does not fail on it, and adds a CDL look
\* whose slope, offset and power are those of the SOP node, with a default
\* saturation.
C25_SopWithoutSatCompiles ==
    \A i \in DOMAIN impl.m_look :
        SopWithoutSat(impl.m_look[i]) =>
            /\ (pc = "failed" => exc # LibraryException("std::invalid_argument: stod"))
            /\ (PastLooks => SopLookAdded(i))

\* the compilation of an AMF whose one look is a SOP node alone ended with
\* the error of std::stod on the empty saturation string
C25_StodOfNoSaturation ==
    /\ pc = "failed" /\ exc = LibraryException("std::invalid_argument: stod")
    /\ amf.looks = <<"sopOnly">>
    /\ SopWithoutSat(impl.m_look[1])
    /\ Len(m_amfConfig.looks) = 1


\* a parse call has started: reset has run and no line is read yet
ParseStarted == pc = "load"

\* C26: at the start of every parse call, a second buildConfig call on the
\* same AMFParser included, the intermediate model holds nothing of an
\* earlier compilation: the clipId, input and output records have no
\* attributes or elements, the look list has length 0 and
\* numLooksBeforeWorkingLocation is unset.
C26_NothingLeftAtStart ==
    ParseStarted =>
        /\ TransformEmpty(impl.m_clipId)
        /\ OutputTransformEmpty(impl.m_input) /\ impl.m_input.m_tldTemp = <<>>
        /\ OutputTransformEmpty(impl.m_output) /\ impl.m_output.m_tldTemp = <<>>
        /\ Len(impl.m_look) = 0
        /\ impl.m_numLooksBeforeWorkingLocation = ToSizeT(-1)

\* the second buildConfig call on an AMFParser that compiled an AMF with
\* looks starts with the look records of that compilation, emptied
C26_EmptiedLooksKept ==
    /\ ParseStarted /\ runs = 2
    /\ Len(impl.m_look) > 0
    /\ \A i \in DOMAIN impl.m_look : TransformEmpty(impl.m_look[i])

\* everything but the look list is as after construction
C26_AllButLooksReset ==
    ParseStarted => [impl EXCEPT !.m_look = <<>>, !.m_xmlFilePath = <<>>] = NewImpl


\* C27: processInputTransform and processOutputTransform terminate for every
\* intermediate model the router can produce: their scans over the
\* sub-elements always advance, whatever the first entry is, so a
\* compilation never loops forever.
C27_ScansTerminate == pc # "hung"

\* the document on one line: the first sub-element recorded below the
\* inverse output device transform is its transformId, not the marker with
\* the indentation, and the while loop of processInputTransform stands on
\* it for ever
C27_InputScanStuck ==
    /\ pc = "hung" /\ amf.layout = "compact" /\ amf.input = "inverseId"
    /\ impl.m_input.m_subElements # <<>>
    /\ StrcasecmpEq(impl.m_input.m_subElements[1][1], AMF_TAG_TRANSFORMID)

\* one tag per line, and no referenceRenderingTransform recorded below an
\* output device transform (no document explored has one): the first
\* sub-element is the marker and the scans end
C27_ScansTerminateIndented == amf.layout = "indented" => pc # "hung"


\* the document compiled before with one tag per line has now been compiled
\* from one line, and that compilation is over one way or another
CompiledReformatted ==
    /\ earlier # NoResult /\ earlier.amf.layout = "indented" /\ amf.layout = "compact"
    /\ pc \in {"done", "failed", "hung", "crashed"}

\* the looks, and what the input and the output resolved to
SameLooksAndResolution(cfg, info, cfg0, info0) ==
    /\ cfg.looks = cfg0.looks
    /\ info.inputColorSpaceName = info0.inputColorSpaceName
    /\ NamesOf(cfg.colorSpaces) = NamesOf(cfg0.colorSpaces)
    /\ DisplaysAndViews(cfg) = DisplaysAndViews(cfg0)
    /\ cfg.activeDisplays = cfg0.activeDisplays /\ cfg.activeViews = cfg0.activeViews

\* C29: recognition of nested constructs does not depend on formatting: a
\* document compiled from indented XML and from compact XML gives the same
\* looks (a SOPNode/SatNode look is a CDL either way) and the same input and
\* output resolution (a transformId or file inside an (inverse) output
\* device transform is processed either way).
C29_FormattingIndependent ==
    CompiledReformatted =>
        /\ pc = "done"
        /\ SameLooksAndResolution(m_amfConfig, amfInfo, earlier.config, earlier.info)

\* the CDL look of the indented document is missing from the config of the
\* compact one
C29_CdlLookLost ==
    /\ CompiledReformatted /\ pc = "done"
    /\ amf.looks = <<"cdl">>
    /\ Len(earlier.config.looks) = 2 /\ earlier.config.looks[2].description = Str("ASC CDL")
    /\ Len(m_amfConfig.looks) = 1

\* the output device transform of the indented document resolved to a
\* display; the compilation of the compact one does not end
C29_OutputScanStuck ==
    /\ CompiledReformatted /\ pc = "hung"
    /\ amf.output = "odt" /\ amf.input = "absent"

\* documents without nested constructs compile the same from both layouts
C29_FlatDocumentsFormattingIndependent ==
    (/\ CompiledReformatted
     /\ amf.input \in {"absent", "id", "idApplied"}
     /\ amf.output \in {"absent", "id"}
     /\ \A k \in DOMAIN amf.looks : amf.looks[k] \in {"id", "idApplied", "unknown", "description"})
        => /\ pc = "done"
           /\ SameLooksAndResolution(m_amfConfig, amfInfo, earlier.config, earlier.info)


\* the AMF path of the call cannot be opened
Unopenable == runs > 0 /\ amf.path \notin FileSystem(fs)

\* C30: compiling an AMF path that cannot be opened raises an error: no
\* config is returned that was built from an intermediate model left empty
\* because no line of the file could be read.
C30_UnopenableRaises == Unopenable => ~Compiled

\* a config was returned for a path that cannot be opened: no line was read,
\* the records are empty, and the config holds the default input and the
\* display None
C30_ConfigOfNoFile ==
    /\ Unopenable /\ Compiled
    /\ impl.m_lineNumber = 0
    /\ TransformEmpty(impl.m_clipId) /\ OutputTransformEmpty(impl.m_input)
    /\ OutputTransformEmpty(impl.m_output) /\ impl.m_look = <<>>
    /\ amfInfo.inputColorSpaceName = Str(ACES)
    /\ amfInfo.displayName = Str("None")

\* a file that opens and holds no bytes is refused by the XML parser
C30_EmptyFileRefused == (runs > 0 /\ ~Unopenable /\ amf.layout = "empty") => ~Compiled

====
